---- MODULE Spec2Model ----
(***************************************************************************)
(* Verification model of the cardiac monitor firmware (CARDIAC2).          *)
(*                                                                         *)
(* The module holds four components, each with its own specification:      *)
(*   SpecSpO2    SpO2Calculator            (spo2_Algorithm.cpp)            *)
(*   SpecBeat    HeartRateCalculator       (unnamed/part_007, lines 1-72)  *)
(*   SpecSensors updateSensors             (unnamed/part_007, part_002)    *)
(*   Spec        the alert engine          (unnamed/part_007, part_002,    *)
(*                                          part_012)                      *)
(* Every specification starts in Init and leaves the variables of the      *)
(* other components unchanged.                                             *)
(***************************************************************************)
EXTENDS Integers, Sequences, FiniteSets

VARIABLES
    \* ---- SpO2Calculator (private members, unnamed/part_000) ----
    calcIrBuffer,      \* irBuffer[BUFFER_SIZE]
    calcRedBuffer,     \* redBuffer[BUFFER_SIZE]
    calcBufferIndex,   \* bufferIndex
    bufferFull,        \* bufferFull
    pushed,            \* history: the (ir, red) pairs added since construction / reset()
    calcLastOp,        \* history: the last SpO2Calculator method called
    \* ---- HeartRateCalculator (private members, heartrate.h) ----
    rateArray,         \* byte rateArray[RATE_ARRAY_SIZE]
    rateSpot,          \* byte rateSpot
    lastBeat,          \* long lastBeat
    threshold,         \* long threshold
    beatDetected,      \* bool beatDetected (the latch)
    lastBeatTime,      \* unsigned long lastBeatTime
    beatNow,           \* millis() as the beat detector's caller sees it
    beatCalls,         \* history: number of checkForBeat calls so far
    beatAt,            \* history: millis() of the last call that returned true, -1 if none
    beatGap,           \* history: time between the last two calls that returned true, -1 if none
    lastDelta,         \* history: the delta of the last 60000 / delta evaluated, -1 if none
    resetSince,        \* history: reset() was called since the last call that returned true
    resetBetween,      \* history: reset() was called between the last two calls that returned true
    beatLastOp,        \* history: the last HeartRateCalculator method called
    beatSample,        \* history: the sample of the last checkForBeat call, -1 if none
    lowSince,          \* history: a sample below threshold - 100 was processed since the last beat
    lowBetween,        \* history: lowSince as it was when the last beat was registered
    \* ---- the sketch: sensor sampling (unnamed/part_007, part_002, part_012) ----
    currentVitals,     \* VitalSigns currentVitals (the timestamp field is never read by the model)
    bufferIndex,       \* int bufferIndex
    fingerDetected,    \* bool fingerDetected
    sensorSamples,     \* history: number of samples updateSensors has read
    \* ---- the sketch: alert engine ----
    impl,              \* which sketch runs: "vector" (part_007) or "array" (part_002, part_012)
    now,               \* millis()
    loops,             \* history: number of loop() passes so far
    enabled,           \* alertThresholds.enabled
    activeAlerts,      \* activeAlerts (with activeAlertsCount in the array sketches)
    alertHistory,      \* alertHistory (with alertHistoryCount in the array sketches)
    lastAlertTime,     \* unsigned long lastAlertTime
    lastAlertCheck,    \* unsigned long lastAlertCheck
    trigLog,           \* history: the triggerAlert calls made by the step just taken, in order
    passed,            \* history: every alert that got past the cooldown gate, in order
    prePurge,          \* history: activeAlerts as the removeOldAlerts of the step just taken found it
    purgeTime,         \* history: millis() read by that removeOldAlerts, -1 if the step ran none
    alertLastOp,       \* history: the step just taken: "boot", "loop" or "input"
    fed,               \* history: the <<delay, snapshot>> of every loop() pass of a followed boot
    \* ---- AlertManager (alert.h, cardiac_monitor_arduino_uno.ino) ----
    alerts,            \* Alert alerts[MAX_ALERTS], the first alertCount entries
    lastBuzzerTime,    \* unsigned long lastBuzzerTime
    buzzerEnabled,     \* bool buzzerEnabled
    managerNow,        \* millis() as the AlertManager's caller sees it
    managerOps,        \* history: number of AlertManager calls so far
    tonePlayed,        \* history: the type the last call passed to playAlertTone, ALERT_NONE if it played none
    managerLastOp,     \* history: the last AlertManager method called
    managerArg,        \* history: the index passed to the last acknowledgeAlert, -1 otherwise
    managerBefore,     \* history: the stored alerts before the last call
    managerType,       \* history: the type passed to the last addAlert, ALERT_NONE otherwise
    managerAt,         \* history: millis() when the last call was made
    managerToned,      \* history: the last call played a tone
    managerWild,       \* history: some call accessed a slot outside alerts[0 .. MAX_ALERTS - 1]
    \* ---- the sketch: WiFi (unnamed/part_007) ----
    wifiSSID,          \* String wifiSSID as stored in preferences ("" if none)
    networkReachable,  \* environment: whether the stored network can be joined at all
    wifiStatus,        \* WiFi.status(): "WL_CONNECTED" or "WL_DISCONNECTED"
    wifiConnected,     \* bool wifiConnected
    configModeActive,  \* bool configModeActive
    connectionAttempts, \* int connectionAttempts
    hotspot,           \* the access point WiFi.softAP has created, "" if none
    wifiPhase,         \* position of the sketch: "setup" or "loop"
    wifiTick,          \* position of loop() within its display refresh cycle
    \* ---- the cardiac_impo.ino sketch: readSensors, checkForBeat, checkAlerts ----
    impoThreshold,     \* static long threshold of checkForBeat
    impoBeatDetected,  \* static bool beatDetected of checkForBeat
    impoLastBeatTime,  \* static unsigned long lastBeatTime of checkForBeat
    impoLastReading,   \* static unsigned long lastReading of readSensors
    impoVitals,        \* currentVitals: heartRate, spO2, batteryLevel, isFingerDetected
    impoAlertActive,   \* static bool alertActive of checkAlerts
    impoLastAlertCheck, \* static unsigned long lastAlertCheck of checkAlerts
    impoNow,           \* millis()
    impoPasses,        \* passes of loop() so far
    impoBeatCall,      \* history: the checkForBeat call of the last pass: whether it was
                       \*   made, whether its three conditions held, and its result
    impoEvaluated,     \* history: the last pass of loop() got past the 2000 ms gate of checkAlerts
    impoBreach,        \* history: shouldAlert of the last evaluation
    impoEvalAt,        \* history: millis() at the gate of the last evaluation, -1 if none
    impoEvalGap,       \* history: time between the gates of the last two evaluations, -1 if none
    impoTriggered,     \* history: the last pass of loop() called triggerAlert
    impoTriggers,      \* history: calls of triggerAlert so far
    impoRearmed,       \* history: an evaluation since the last triggerAlert observed no breach
    impoRearmedBefore, \* history: impoRearmed as it was before the last evaluation
    \* ---- the array-based alert engine (unnamed/part_002), slot by slot ----
    arrActive,         \* Alert activeAlerts[MAX_ALERTS]: slot -> alert
    arrActiveCount,    \* int activeAlertsCount
    arrHistory,        \* Alert alertHistory[MAX_HISTORY]: slot -> alert
    arrHistoryCount,   \* int alertHistoryCount
    arrLastAlertTime,  \* unsigned long lastAlertTime
    arrLastMemCheck,   \* static unsigned long lastMemCheck of checkMemoryUsage
    arrNow,            \* millis()
    arrOps,            \* calls so far
    arrStored,         \* history: alerts that got past the gate of triggerAlert so far
    arrWild,           \* history: some call wrote or moved a slot outside its array
    arrLastOp,         \* history: the last call
    \* ---- the alert engine over unbounded time (unnamed/part_007) ----
    cycElapsed,        \* millis() - lastAlertTime, kept up to ALERT_COOLDOWN
    cycVitals,         \* currentVitals at the last evaluation cycle
    cycAppended,       \* history: the messages appended to Alert History by the last cycle
    cycBatteryAlerted, \* history: a low-battery alert was appended to Alert History
    \* ---- the simplified Uno sketch (cardiac_monitor_arduino_uno.ino): loop, checkAlerts ----
    unoSinceCheck,     \* millis() - lastAlertCheck when the last pass ended, kept up to 1000
    unoVitals,         \* currentVitals
    unoAlertActive,    \* bool alertActive
    unoMessage,        \* activeAlert.message, by its prefix
    unoAlertAge,       \* millis() - activeAlert.timestamp when the last pass ended, kept up to 5001
    unoReached,        \* history: the last pass of loop() called checkAlerts
    unoPastGate        \* history: the checkAlerts of the last pass got past its cooldown check

spo2Vars == <<calcIrBuffer, calcRedBuffer, calcBufferIndex, bufferFull, pushed, calcLastOp>>

beatVars == <<rateArray, rateSpot, lastBeat, threshold, beatDetected, lastBeatTime,
              beatNow, beatCalls, beatAt, beatGap, lastDelta, resetSince, resetBetween,
              beatLastOp, beatSample, lowSince, lowBetween>>

sensorVars == <<bufferIndex, fingerDetected, sensorSamples>>

alertVars == <<impl, now, loops, enabled, activeAlerts, alertHistory, lastAlertTime, lastAlertCheck,
               trigLog, passed, prePurge, purgeTime, alertLastOp>>

scenarioVars == <<fed>>

managerVars == <<alerts, lastBuzzerTime, buzzerEnabled, managerNow, managerOps, tonePlayed,
                 managerLastOp, managerArg, managerBefore, managerType, managerAt,
                 managerToned, managerWild>>

wifiVars == <<wifiSSID, networkReachable, wifiStatus, wifiConnected, configModeActive,
              connectionAttempts, hotspot, wifiPhase, wifiTick>>

impoVars == <<impoThreshold, impoBeatDetected, impoLastBeatTime, impoLastReading, impoVitals,
             impoAlertActive, impoLastAlertCheck, impoNow, impoPasses, impoBeatCall,
             impoEvaluated, impoBreach, impoEvalAt, impoEvalGap, impoTriggered, impoTriggers,
             impoRearmed, impoRearmedBefore>>

arrVars == <<arrActive, arrActiveCount, arrHistory, arrHistoryCount, arrLastAlertTime,
            arrLastMemCheck, arrNow, arrOps, arrStored, arrWild, arrLastOp>>

cycleVars == <<cycElapsed, cycVitals, cycAppended, cycBatteryAlerted>>

unoVars == <<unoSinceCheck, unoVitals, unoAlertActive, unoMessage, unoAlertAge, unoReached,
             unoPastGate>>

vars == <<spo2Vars, beatVars, currentVitals, sensorVars, alertVars, scenarioVars, managerVars,
          wifiVars, impoVars, arrVars, cycleVars, unoVars>>

\* What each component leaves alone: the variables of the other components.
notSpO2Vars == <<beatVars, currentVitals, sensorVars, alertVars, scenarioVars, managerVars,
    wifiVars, impoVars, arrVars, cycleVars, unoVars>>

notBeatVars == <<spo2Vars, currentVitals, sensorVars, alertVars, scenarioVars, managerVars,
    wifiVars, impoVars, arrVars, cycleVars, unoVars>>

notSensorVars == <<spo2Vars, beatVars, alertVars, scenarioVars, managerVars,
    wifiVars, impoVars, arrVars, cycleVars, unoVars>>

notAlertVars == <<spo2Vars, beatVars, sensorVars, managerVars,
    wifiVars, impoVars, arrVars, cycleVars, unoVars>>

notManagerVars == <<spo2Vars, beatVars, currentVitals, sensorVars, alertVars, scenarioVars,
    wifiVars, impoVars, arrVars, cycleVars, unoVars>>

notWiFiVars == <<spo2Vars, beatVars, currentVitals, sensorVars, alertVars, scenarioVars,
    managerVars, impoVars, arrVars, cycleVars, unoVars>>

notImpoVars == <<spo2Vars, beatVars, currentVitals, sensorVars, alertVars, scenarioVars,
    managerVars, wifiVars, arrVars, cycleVars, unoVars>>

notArrVars == <<spo2Vars, beatVars, currentVitals, sensorVars, alertVars, scenarioVars,
    managerVars, wifiVars, impoVars, cycleVars, unoVars>>

notCycleVars == <<spo2Vars, beatVars, currentVitals, sensorVars, alertVars, scenarioVars,
    managerVars, wifiVars, impoVars, arrVars, unoVars>>

notUnoVars == <<spo2Vars, beatVars, currentVitals, sensorVars, alertVars, scenarioVars,
    managerVars, wifiVars, impoVars, arrVars, cycleVars>>

(***************************************************************************)
(* uint32_t values.  The model checker's integers are 32-bit signed, so a  *)
(* uint32_t is kept as <<hi, lo>>, its two 16-bit halves; the arithmetic   *)
(* below is arithmetic modulo 2^32.                                        *)
(***************************************************************************)
Half == 65536

\* The uint32_t with value n, for 0 <= n < 2^31.
W(n) == <<n \div Half, n % Half>>

\* The uint32_t 0xFFFFFFFF.
WMaxValue == <<Half - 1, Half - 1>>

\* a + b in uint32_t (wraps at 2^32).
WAdd(a, b) ==
    LET lo == a[2] + b[2]
    IN  <<(a[1] + b[1] + (lo \div Half)) % Half, lo % Half>>

\* a - b in uint32_t (wraps at 2^32).
WSub(a, b) ==
    LET lo == a[2] - b[2]
        borrow == IF lo < 0 THEN 1 ELSE 0
    IN  <<(a[1] - b[1] - borrow + Half) % Half, (lo + Half) % Half>>

\* a < b on uint32_t.
WLess(a, b) == a[1] < b[1] \/ (a[1] = b[1] /\ a[2] < b[2])

\* The value of a uint32_t below 2^31 as a number.
WVal(a) == a[1] * Half + a[2]

WMax(S) == CHOOSE x \in S : \A y \in S : ~WLess(x, y)

WMin(S) == CHOOSE x \in S : \A y \in S : ~WLess(y, x)

(***************************************************************************)
(* SpO2Calculator                                                          *)
(***************************************************************************)

\* Capacity of the sample ring. The firmware uses 100; the model scales it down.
BUFFER_SIZE == 3

\* Samples added after the ring has filled once (the k of "capacity + k").
ExtraPushes == 2

MaxPushes == BUFFER_SIZE + ExtraPushes

Slots == 0 .. (BUFFER_SIZE - 1)

\* (ir, red) pairs fed to addSample: no signal, and pulsatile pairs.
SamplePairs ==
    { <<W(0), W(0)>>, <<W(1000), W(500)>>, <<W(1100), W(520)>>, <<W(1100), W(500)>> }

\* SpO2Calculator::SpO2Calculator(): bufferIndex = 0, bufferFull = false, reset().
SpO2Init ==
    /\ calcIrBuffer = [i \in Slots |-> W(0)]
    /\ calcRedBuffer = [i \in Slots |-> W(0)]
    /\ calcBufferIndex = 0
    /\ bufferFull = FALSE
    /\ pushed = << >>
    /\ calcLastOp = "construct"

\* A ring index that is reset one call too late.
addSampleIndexLate(idx) == IF idx + 1 > BUFFER_SIZE THEN 0 ELSE idx + 1

\* The index addSample leaves, from the index before the call.
addSampleIndex(idx) == IF idx + 1 >= BUFFER_SIZE THEN 0 ELSE idx + 1

\* A full flag that is set by the first sample.
addSampleFullEarly(idx, full) == TRUE

\* The full flag addSample leaves, from the index and the flag before the call.
addSampleFull(idx, full) == IF idx + 1 >= BUFFER_SIZE THEN TRUE ELSE full

\* void SpO2Calculator::addSample(uint32_t irValue, uint32_t redValue)
addSample(irValue, redValue) ==
    /\ Len(pushed) < MaxPushes
    /\ calcIrBuffer' = [calcIrBuffer EXCEPT ![calcBufferIndex] = irValue]
    /\ calcRedBuffer' = [calcRedBuffer EXCEPT ![calcBufferIndex] = redValue]
    /\ calcBufferIndex' = addSampleIndex(calcBufferIndex)
    /\ bufferFull' = addSampleFull(calcBufferIndex, bufferFull)
    /\ pushed' = Append(pushed, <<irValue, redValue>>)
    /\ calcLastOp' = "addSample"
    /\ UNCHANGED notSpO2Vars

\* The full flag reset() leaves.
resetFull == FALSE

\* void SpO2Calculator::reset()
SpO2Reset ==
    /\ calcIrBuffer' = [i \in Slots |-> W(0)]
    /\ calcRedBuffer' = [i \in Slots |-> W(0)]
    /\ calcBufferIndex' = 0
    /\ bufferFull' = resetFull
    /\ pushed' = << >>
    /\ calcLastOp' = "reset"
    /\ UNCHANGED notSpO2Vars

\* max + min of one channel's buffer as calculateRatio adds them: in
\* uint32_t, before the division by 2.0.
dcSum(buffer) == WAdd(WMax({buffer[i] : i \in Slots}), WMin({buffer[i] : i \in Slots}))

\* float SpO2Calculator::calculateRatio(): the ratio of ratios as a fraction
\* <<numerator, denominator>>; <<0, 1>> is the code's "return 0".
\* irDC = (irMax + irMin) / 2.0 adds in uint32_t (the sum wraps at 2^32) and
\* halves in floating point, so DC == 0 exactly when the wrapped sum is 0, and
\* redRatio / irRatio = (redAC * irSum) / (redSum * irAC), the halves cancelling.
\* The fraction is exact; the rounding of float is not modelled.
calculateRatio ==
    IF ~bufferFull THEN <<0, 1>>
    ELSE
        LET irMax == WMax({calcIrBuffer[i] : i \in Slots})
            irMin == WMin({calcIrBuffer[i] : i \in Slots})
            redMax == WMax({calcRedBuffer[i] : i \in Slots})
            redMin == WMin({calcRedBuffer[i] : i \in Slots})
            irAC == WSub(irMax, irMin)
            irSum == dcSum(calcIrBuffer)
            redAC == WSub(redMax, redMin)
            redSum == dcSum(calcRedBuffer)
        IN  IF irSum = W(0) \/ redSum = W(0) THEN <<0, 1>>
            ELSE IF irAC = W(0) THEN <<0, 1>>
            ELSE <<WVal(redAC) * WVal(irSum), WVal(redSum) * WVal(irAC)>>

\* float SpO2Calculator::calculateSpO2(): the result as a fraction
\* <<numerator, denominator>>, denominator > 0.
calculateSpO2 ==
    IF ~bufferFull THEN <<0, 1>>
    ELSE
        LET ratio == calculateRatio
            n == ratio[1]
            d == ratio[2]
        IN  IF n = 0 THEN <<0, 1>>
            ELSE IF 110 * d - 25 * n > 100 * d THEN <<100, 1>>
            ELSE IF 110 * d - 25 * n < 70 * d THEN <<70, 1>>
            ELSE <<110 * d - 25 * n, d>>

NextSpO2 ==
    \/ \E p \in SamplePairs : addSample(p[1], p[2])
    \/ SpO2Reset

\* The samples isFingerPresent averages: min(10, BUFFER_SIZE) in the source,
\* scaled down with the buffer.
RECENT_SAMPLES == 2

FINGER_FLOOR == 50000

recentSamples == IF RECENT_SAMPLES < BUFFER_SIZE THEN RECENT_SAMPLES ELSE BUFFER_SIZE

\* recentSum after the first n passes of the loop of isFingerPresent:
\* uint32_t additions, each wrapping at 2^32.
RECURSIVE recentSum(_)
recentSum(n) ==
    IF n = 0
    THEN W(0)
    ELSE WAdd(recentSum(n - 1),
              calcIrBuffer[(calcBufferIndex - 1 - (n - 1) + BUFFER_SIZE) % BUFFER_SIZE])

\* bool SpO2Calculator::isFingerPresent(): recentSum / recentSamples > 50000,
\* that is recentSum >= 50001 * recentSamples.
isFingerPresent ==
    IF ~bufferFull
    THEN FALSE
    ELSE ~WLess(recentSum(recentSamples), W((FINGER_FLOOR + 1) * recentSamples))

\* bool SpO2Calculator::isValidReading()
isValidReading == bufferFull /\ isFingerPresent

\* Infrared samples over the whole range of uint32_t: 0, below and above the
\* floor, 0x80000000 and 0xFFFFFFFF.
WideIrSamples == {W(0), W(40000), W(60001), <<Half \div 2, 0>>, WMaxValue}

NextFinger ==
    \/ \E ir \in WideIrSamples : addSample(ir, W(0))
    \/ SpO2Reset

(***************************************************************************)
(* HeartRateCalculator                                                     *)
(***************************************************************************)

RATE_ARRAY_SIZE == 4

\* Bound on the number of checkForBeat calls of a run.
MaxBeatCalls == 5

\* Time between two checkForBeat calls, in ms: just inside and just outside the
\* 300 ms refractory period, and a long pause (299 + 2699 and 301 + 2699 are just
\* inside and just outside the 3000 ms limit of a valid interval).
BeatSteps == {299, 301, 2699}

\* Samples: below and above the initial threshold 512.
BeatSamples == {0, 1000}

\* Arguments of setThreshold.
ThresholdValues == {100, 2000}

\* C integer division (truncation toward zero) by a positive divisor.
CDiv(a, b) == IF a >= 0 THEN a \div b ELSE -((-a) \div b)

\* HeartRateCalculator::HeartRateCalculator()
BeatInit ==
    /\ rateArray = [i \in 0 .. (RATE_ARRAY_SIZE - 1) |-> 0]
    /\ rateSpot = 0
    /\ lastBeat = 0
    /\ threshold = 512
    /\ beatDetected = FALSE
    /\ lastBeatTime = 0
    /\ beatNow = 0
    /\ beatCalls = 0
    /\ beatAt = -1
    /\ beatGap = -1
    /\ lastDelta = -1
    /\ resetSince = FALSE
    /\ resetBetween = FALSE
    /\ beatLastOp = "construct"
    /\ beatSample = -1
    /\ lowSince = FALSE
    /\ lowBetween = FALSE

\* The refractory test of checkForBeat: (millis() - lastBeatTime) > 300.
\* The clock of the model stays far below 2^32, so the unsigned difference is
\* the plain one.
refractoryOver(t, lbt) == (t - lbt) > 300

\* An interval test without its upper limit.
validIntervalNoUpper(delta) == delta > 300

\* The interval test of checkForBeat: delta > 300 && delta < 3000.
validInterval(delta) == delta > 300 /\ delta < 3000

\* A latch test that always passes.
latchClearAlways(latch) == TRUE

\* The latch test of checkForBeat: !beatDetected.
latchClear(latch) == ~latch

\* bool HeartRateCalculator::checkForBeat(long sample), called dt ms after the
\* previous call. The millis() calls of one invocation read the same value.
checkForBeat(dt, sample) ==
    /\ beatCalls < MaxBeatCalls
    /\ beatCalls' = beatCalls + 1
    /\ beatNow' = beatNow + dt
    /\ beatLastOp' = "checkForBeat"
    /\ beatSample' = sample
    /\ UNCHANGED notBeatVars
    /\ LET t == beatNow + dt
           delta == t - lastBeat
       IN  IF sample > threshold /\ latchClear(beatDetected) /\ refractoryOver(t, lastBeatTime)
           THEN \* a beat is registered: return true
                /\ beatDetected' = TRUE
                /\ lastBeatTime' = t
                /\ lastBeat' = t
                /\ IF validInterval(delta)
                   THEN /\ rateArray' = [rateArray EXCEPT ![rateSpot] = (60000 \div delta) % 256]
                        /\ rateSpot' = (rateSpot + 1) % RATE_ARRAY_SIZE
                        /\ lastDelta' = delta
                   ELSE UNCHANGED <<rateArray, rateSpot, lastDelta>>
                /\ UNCHANGED threshold
                /\ beatAt' = t
                /\ beatGap' = IF beatAt = -1 THEN -1 ELSE t - beatAt
                /\ resetBetween' = resetSince
                /\ resetSince' = FALSE
                /\ lowBetween' = lowSince
                /\ lowSince' = FALSE
           ELSE \* return false
                /\ beatDetected' = IF sample < threshold - 100 THEN FALSE ELSE beatDetected
                /\ threshold' = CDiv(threshold * 31 + sample, 32)
                /\ lowSince' = (lowSince \/ sample < threshold - 100)
                /\ UNCHANGED <<lastBeatTime, lastBeat, rateArray, rateSpot, lastDelta,
                               beatAt, beatGap, resetSince, resetBetween, lowBetween>>

RECURSIVE rateTotal(_)
\* The sum of rateArray[0 .. n-1] (zero entries add nothing).
rateTotal(n) == IF n = 0 THEN 0 ELSE rateTotal(n - 1) + rateArray[n - 1]

\* int HeartRateCalculator::getBeatsPerMinute()
getBeatsPerMinute ==
    LET validReadings == Cardinality({i \in 0 .. (RATE_ARRAY_SIZE - 1) : rateArray[i] # 0})
    IN  IF validReadings = 0 THEN 0 ELSE rateTotal(RATE_ARRAY_SIZE) \div validReadings

\* A reset that also forgets the time of the last beat.
resetLastBeatTimeCleared(lbt) == 0

\* lastBeatTime after reset(): reset() does not assign it.
resetLastBeatTime(lbt) == lbt

\* void HeartRateCalculator::reset()
BeatReset ==
    /\ rateArray' = [i \in 0 .. (RATE_ARRAY_SIZE - 1) |-> 0]
    /\ rateSpot' = 0
    /\ lastBeat' = 0
    /\ beatDetected' = FALSE
    /\ lastBeatTime' = resetLastBeatTime(lastBeatTime)
    /\ beatLastOp' = "reset"
    /\ resetSince' = TRUE
    /\ UNCHANGED <<threshold, beatNow, beatCalls, beatAt, beatGap, lastDelta, resetBetween,
                   beatSample, lowSince, lowBetween>>
    /\ UNCHANGED notBeatVars

\* void HeartRateCalculator::setThreshold(long newThreshold)
setThreshold(newThreshold) ==
    /\ threshold' = newThreshold
    /\ beatLastOp' = "setThreshold"
    /\ UNCHANGED <<rateArray, rateSpot, lastBeat, beatDetected, lastBeatTime,
                   beatNow, beatCalls, beatAt, beatGap, lastDelta, resetSince, resetBetween,
                   beatSample, lowSince, lowBetween>>
    /\ UNCHANGED notBeatVars

NextBeat ==
    \/ \E dt \in BeatSteps, sample \in BeatSamples : checkForBeat(dt, sample)
    \/ BeatReset
    \/ \E t \in ThresholdValues : setThreshold(t)

(***************************************************************************)
(* The sketch: updateSensors                                               *)
(***************************************************************************)

\* Capacity of the sketch's irBuffer / redBuffer (BUFFER_SIZE: 500 in part_007,
\* 100 in part_002); the model scales it down. The buffers only feed the
\* library routine below, so their contents are not kept.
SKETCH_BUFFER_SIZE == 3

FINGER_THRESHOLD == 50000

\* Bound on the number of samples updateSensors reads in a run.
MaxSensorSamples == 7

\* particleSensor.getIR(): no finger, and a finger on the sensor.
IrReadings == {1000, 60000}

\* readBatteryLevel(), in percent.
BatteryReadings == {8, 50}

\* What maxim_heart_rate_and_oxygen_saturation (the sensor vendor's library,
\* not part of this repository) may hand back: <<valid, value>>.
LibHeartRates == { <<1, 72>>, <<0, -999>>, <<1, 250>> }

LibSpO2s == { <<1, 97>>, <<0, -999>> }

\* VitalSigns currentVitals, as constructed (all fields zero, no finger).
VitalsInit ==
    currentVitals = [heartRate |-> 0, spO2 |-> 0, batteryLevel |-> 0, isFingerDetected |-> FALSE]

SensorsInit ==
    /\ bufferIndex = 0
    /\ fingerDetected = FALSE
    /\ sensorSamples = 0

\* updateSensors() when particleSensor.available() is false: only the battery
\* level (and the timestamp) are refreshed.
updateSensorsNoSample(battery) ==
    /\ currentVitals' = [currentVitals EXCEPT !.batteryLevel = battery]
    /\ UNCHANGED sensorVars
    /\ UNCHANGED notSensorVars

\* updateSensors() when a sample is available: ir is the infrared reading, hr
\* and ox the library's <<valid, value>> results should the buffer fill up.
updateSensors(battery, ir, hr, ox) ==
    /\ sensorSamples < MaxSensorSamples
    /\ sensorSamples' = sensorSamples + 1
    /\ LET finger == ir > FINGER_THRESHOLD
           full == bufferIndex + 1 >= SKETCH_BUFFER_SIZE
           heartRate == IF ~full THEN currentVitals.heartRate
                        ELSE IF ~finger THEN 0
                        ELSE IF hr[1] # 0 /\ hr[2] > 0 /\ hr[2] < 200 THEN hr[2]
                        ELSE currentVitals.heartRate
           spO2 == IF ~full THEN currentVitals.spO2
                   ELSE IF ~finger THEN 0
                   ELSE IF ox[1] # 0 /\ ox[2] > 0 /\ ox[2] <= 100 THEN ox[2]
                   ELSE currentVitals.spO2
       IN  /\ fingerDetected' = finger
           /\ bufferIndex' = IF full THEN 0 ELSE bufferIndex + 1
           /\ currentVitals' = [heartRate |-> heartRate, spO2 |-> spO2,
                                batteryLevel |-> battery, isFingerDetected |-> finger]
    /\ UNCHANGED notSensorVars

NextSensors ==
    \/ \E b \in BatteryReadings : updateSensorsNoSample(b)
    \/ \E b \in BatteryReadings, ir \in IrReadings, hr \in LibHeartRates, ox \in LibSpO2s :
          updateSensors(b, ir, hr, ox)

(***************************************************************************)
(* The sketch: alert engine (checkAlerts, triggerAlert, removeOldAlerts)   *)
(***************************************************************************)

\* Capacity of activeAlerts in the array sketches (5 in part_002, 10 in
\* part_012); the model scales it down.
MAX_ALERTS == 2

\* Capacity of alertHistory (20 in part_002, 50 in part_007 and part_012); the
\* model scales it down.
MAX_HISTORY == 3

ALERT_COOLDOWN == 5000

\* Age in ms beyond which removeOldAlerts drops an alert.
ALERT_EXPIRY == 30000

\* Period of checkAlerts in loop(), in ms.
ALERT_CHECK_INTERVAL == 1000

\* millis() when setup() returns: the splash screen's delay(2000).
BOOT_TIME == 2000

\* The run is followed for this many passes of loop().
MaxLoops == 4

\* alertThresholds as loadSettings leaves them by default.
heartRateMin == 60

heartRateMax == 100

spO2Min == 95

batteryMin == 20

\* Time from the end of one loop() to the start of the next, in ms.
LoopSteps == {500, 5000, 26000}

\* VitalSigns snapshots updateSensors can leave behind between two
\* evaluations: nothing in breach, one breach of each kind, several at once.
Snapshots ==
    { [heartRate |-> 0, spO2 |-> 0, batteryLevel |-> 50, isFingerDetected |-> FALSE],
      [heartRate |-> 45, spO2 |-> 98, batteryLevel |-> 50, isFingerDetected |-> TRUE],
      [heartRate |-> 72, spO2 |-> 85, batteryLevel |-> 8, isFingerDetected |-> TRUE] }

AlertInit ==
    /\ impl \in {"vector", "array"}
    /\ now = BOOT_TIME
    /\ loops = 0
    /\ enabled = TRUE
    /\ activeAlerts = << >>
    /\ alertHistory = << >>
    /\ lastAlertTime = 0
    /\ lastAlertCheck = 0
    /\ trigLog = << >>
    /\ passed = << >>
    /\ prePurge = << >>
    /\ purgeTime = -1
    /\ alertLastOp = "boot"
    /\ fed = << >>

\* playAlertSound(level): the time its delay() calls block for.
soundDuration(level) ==
    CASE level = "CRITICAL" -> 3 * 500 + 2 * 200
      [] level = "WARNING" -> 2 * 300 + 1 * 200
      [] OTHER -> 200

\* A cooldown gate that re-opens after one second.
cooldownOverShort(clock, last) == ~(clock - last < 1000)

\* The gate of triggerAlert: if (millis() - lastAlertTime < ALERT_COOLDOWN) return;
cooldownOver(clock, last) == ~(clock - last < ALERT_COOLDOWN)

\* activeAlerts after triggerAlert has got past the gate: push_back in the
\* vector sketch, a store guarded by activeAlertsCount < MAX_ALERTS in the array
\* sketches.
appendActive(im, active, alert) ==
    IF im = "vector" THEN Append(active, alert)
    ELSE IF Len(active) < MAX_ALERTS THEN Append(active, alert)
    ELSE active

\* A history that drops the new alert once it is full.
appendHistoryDropNew(im, history, alert) ==
    IF Len(history) < MAX_HISTORY THEN Append(history, alert) ELSE history

\* alertHistory after triggerAlert has got past the gate: push_back, then erase
\* the first entry when over capacity (vector sketch); append, or memmove down by
\* one and store in the last slot when full (array sketches).
appendHistory(im, history, alert) ==
    IF im = "vector"
    THEN LET h == Append(history, alert)
         IN  IF Len(h) > MAX_HISTORY THEN Tail(h) ELSE h
    ELSE IF Len(history) < MAX_HISTORY THEN Append(history, alert)
    ELSE Append(Tail(history), alert)

\* triggerAlert(level, message) on the engine state e = [active, history, last,
\* clock, log, passed]; clock is millis(), which playAlertSound advances.
triggerAlert(e, level, message) ==
    IF ~cooldownOver(e.clock, e.last)
    THEN [e EXCEPT !.log = Append(@, [passed |-> FALSE, level |-> level, message |-> message,
                                       timestamp |-> e.clock,
                                       activeBefore |-> e.active, activeAfter |-> e.active,
                                       historyAfter |-> e.history])]
    ELSE LET alert == [level |-> level, message |-> message, timestamp |-> e.clock,
                       acknowledged |-> FALSE]
             active2 == appendActive(impl, e.active, alert)
             history2 == appendHistory(impl, e.history, alert)
         IN  [active |-> active2,
              history |-> history2,
              last |-> e.clock,
              clock |-> e.clock + soundDuration(level),
              log |-> Append(e.log, [passed |-> TRUE, level |-> level, message |-> message,
                                     timestamp |-> e.clock,
                                     activeBefore |-> e.active, activeAfter |-> active2,
                                     historyAfter |-> history2]),
              passed |-> Append(e.passed, alert)]

\* A purge that keeps acknowledged alerts.
keepAlertIgnoringAck(alert, currentTime) == currentTime - alert.timestamp <= ALERT_EXPIRY

\* The alerts removeOldAlerts keeps: not acknowledged and at most 30000 ms old.
keepAlert(alert, currentTime) ==
    ~alert.acknowledged /\ (currentTime - alert.timestamp <= ALERT_EXPIRY)

\* removeOldAlerts(), reading millis() = currentTime.
removeOldAlerts(active, currentTime) ==
    SelectSeq(active, LAMBDA a : keepAlert(a, currentTime))

\* A heart-rate severity that follows the configured limits.
heartRateLevelByLimits(hr) ==
    IF hr < heartRateMin \/ hr > heartRateMax THEN "CRITICAL" ELSE "WARNING"

\* The level checkAlerts gives a heart-rate alert.
heartRateLevel(hr) == IF hr < 50 \/ hr > 120 THEN "CRITICAL" ELSE "WARNING"

\* The level checkAlerts gives an SpO2 alert.
spO2Level(ox) == IF ox < 90 THEN "CRITICAL" ELSE "WARNING"

\* The level checkAlerts gives a battery alert.
batteryLevelOf(battery) == IF battery < 10 THEN "CRITICAL" ELSE "WARNING"

\* A heart-rate check that does not look at the finger flag.
heartRateEvaluatedAnyFinger(v) == v.heartRate > 0

\* The outer condition of the heart-rate check of checkAlerts.
heartRateEvaluated(v) == v.isFingerDetected /\ v.heartRate > 0

\* The outer condition of the SpO2 check of checkAlerts.
spO2Evaluated(v) == v.isFingerDetected /\ v.spO2 > 0

\* The three threshold checks of checkAlerts, in the order heart rate, SpO2,
\* battery, each calling triggerAlert when in breach.
checkHeartRate(e, v) ==
    IF heartRateEvaluated(v)
       /\ (v.heartRate < heartRateMin \/ v.heartRate > heartRateMax)
    THEN triggerAlert(e, heartRateLevel(v.heartRate), <<"Heart rate", v.heartRate>>)
    ELSE e

checkSpO2(e, v) ==
    IF spO2Evaluated(v) /\ v.spO2 < spO2Min
    THEN triggerAlert(e, spO2Level(v.spO2), <<"Low SpO2", v.spO2>>)
    ELSE e

checkBattery(e, v) ==
    IF v.batteryLevel < batteryMin
    THEN triggerAlert(e, batteryLevelOf(v.batteryLevel), <<"Low battery", v.batteryLevel>>)
    ELSE e

\* A checkAlerts that runs its checks whatever the enable flag says.
checksDisabledNever(en) == FALSE

\* The early return of checkAlerts: if (!alertThresholds.enabled) return;
checksDisabled(en) == ~en

\* The engine state after the threshold checks of checkAlerts(), before its
\* removeOldAlerts().
checkThresholds(e, v) == checkBattery(checkSpO2(checkHeartRate(e, v), v), v)

\* One pass of loop(): d ms after the previous pass ended, updateSensors has left
\* the snapshot v, and checkAlerts() runs if its interval has elapsed.
loopPass(d, v) ==
    /\ loops < MaxLoops
    /\ loops' = loops + 1
    /\ alertLastOp' = "loop"
    /\ currentVitals' = v
    /\ LET currentTime == now + d
           e0 == [active |-> activeAlerts, history |-> alertHistory, last |-> lastAlertTime,
                  clock |-> currentTime, log |-> << >>, passed |-> passed]
       IN  IF ~(currentTime - lastAlertCheck >= ALERT_CHECK_INTERVAL)
           THEN \* checkAlerts() is not due
                /\ now' = currentTime
                /\ trigLog' = << >>
                /\ purgeTime' = -1
                /\ prePurge' = << >>
                /\ UNCHANGED <<activeAlerts, alertHistory, lastAlertTime, lastAlertCheck, passed>>
           ELSE IF checksDisabled(enabled)
           THEN \* checkAlerts(): if (!alertThresholds.enabled) return;
                /\ lastAlertCheck' = currentTime
                /\ now' = currentTime
                /\ trigLog' = << >>
                /\ purgeTime' = -1
                /\ prePurge' = << >>
                /\ UNCHANGED <<activeAlerts, alertHistory, lastAlertTime, passed>>
           ELSE LET e == checkThresholds(e0, v)
                IN  /\ lastAlertCheck' = currentTime
                    /\ now' = e.clock
                    /\ activeAlerts' = removeOldAlerts(e.active, e.clock)
                    /\ alertHistory' = e.history
                    /\ lastAlertTime' = e.last
                    /\ trigLog' = e.log
                    /\ passed' = e.passed
                    /\ prePurge' = e.active
                    /\ purgeTime' = e.clock
    /\ UNCHANGED <<impl, enabled>>
    /\ UNCHANGED notAlertVars

\* A pass of loop() in a run that is followed from any point on.
Loop(d, v) == loopPass(d, v) /\ UNCHANGED scenarioVars

\* The acknowledge input (touch / button) marks the i-th active alert. The
\* sketches read the flag in removeOldAlerts but contain no writer of it; the
\* write is the one AlertManager::acknowledgeAlert makes on its own array.
Acknowledge(i) ==
    /\ i \in 1 .. Len(activeAlerts)
    /\ activeAlerts' = [activeAlerts EXCEPT ![i].acknowledged = TRUE]
    /\ alertLastOp' = "input"
    /\ trigLog' = << >>
    /\ prePurge' = << >>
    /\ purgeTime' = -1
    /\ UNCHANGED <<impl, now, loops, enabled, alertHistory, lastAlertTime, lastAlertCheck,
                   passed, currentVitals, scenarioVars>>
    /\ UNCHANGED notAlertVars

\* The settings collaborator switches the global alert enable flag. The
\* sketches assign alertThresholds.enabled only in loadSettings, from stored
\* settings.
SetEnabled(b) ==
    /\ enabled # b
    /\ enabled' = b
    /\ alertLastOp' = "input"
    /\ trigLog' = << >>
    /\ prePurge' = << >>
    /\ purgeTime' = -1
    /\ UNCHANGED <<impl, now, loops, activeAlerts, alertHistory, lastAlertTime, lastAlertCheck,
                   passed, currentVitals, scenarioVars>>
    /\ UNCHANGED notAlertVars

\* The snapshot of a device with a low battery and no finger on the sensor.
LowBattery == [heartRate |-> 0, spO2 |-> 0, batteryLevel |-> 8, isFingerDetected |-> FALSE]

\* Delays of the passes followed from boot: the first pass right after
\* setup(), passes one second apart, and a longer pause.
BootSteps == {0, 1000, 5000}

\* The snapshots fed after boot: those of Snapshots, the low battery, values
\* in breach at Warning level, and values the checks must leave alone (stale
\* values with no finger, zeros with a finger).
BootSnapshots ==
    Snapshots \cup
    { LowBattery,
      [heartRate |-> 110, spO2 |-> 98, batteryLevel |-> 50, isFingerDetected |-> TRUE],
      [heartRate |-> 72, spO2 |-> 92, batteryLevel |-> 15, isFingerDetected |-> TRUE],
      [heartRate |-> 0, spO2 |-> 0, batteryLevel |-> 15, isFingerDetected |-> FALSE],
      [heartRate |-> 45, spO2 |-> 85, batteryLevel |-> 50, isFingerDetected |-> FALSE],
      [heartRate |-> 0, spO2 |-> 0, batteryLevel |-> 50, isFingerDetected |-> TRUE] }

\* The run from boot is followed for this many passes of loop().
MaxBootLoops == 3

\* A pass of loop() in a run that is followed from boot, pass by pass.
BootLoop(d, v) ==
    /\ Len(fed) < MaxBootLoops
    /\ loopPass(d, v)
    /\ fed' = Append(fed, <<d, v>>)

NextBoot == \E d \in BootSteps, v \in BootSnapshots : BootLoop(d, v)

Next ==
    \/ \E d \in LoopSteps, v \in Snapshots : Loop(d, v)
    \/ \E i \in 1 .. MAX_ALERTS + 6 : Acknowledge(i)
    \/ \E b \in BOOLEAN : SetEnabled(b)

(***************************************************************************)
(* AlertManager                                                            *)
(***************************************************************************)

\* Capacity of AlertManager::alerts (AlertManager::MAX_ALERTS, 10 in alert.h);
\* the model scales it down.
MANAGER_MAX_ALERTS == 2

\* The calls of the AlertManager are followed up to this number.
MaxManagerOps == 5

\* enum AlertType, by value.
ALERT_NONE == 0

ALERT_HIGH_HEART_RATE == 1

ALERT_LOW_BATTERY == 4

ALERT_NO_FINGER == 6

\* The types passed to addAlert.
AddedTypes == {ALERT_HIGH_HEART_RATE, ALERT_LOW_BATTERY, ALERT_NO_FINGER}

\* Time between the previous call and a handleBuzzer() call, in ms: within
\* and beyond the 2 s of the buzzer, and the 30 s after which addAlert stores
\* a type again.
BuzzerSteps == {100, 2001, 30000}

\* The indices passed to acknowledgeAlert: valid ones, -1 and past the end.
AckIndices == (-1) .. MANAGER_MAX_ALERTS

\* AlertManager::AlertManager()
ManagerInit ==
    /\ alerts = << >>
    /\ lastBuzzerTime = 0
    /\ buzzerEnabled = TRUE
    /\ managerNow = 0
    /\ managerOps = 0
    /\ tonePlayed = ALERT_NONE
    /\ managerLastOp = "construct"
    /\ managerArg = -1
    /\ managerBefore = << >>
    /\ managerType = ALERT_NONE
    /\ managerAt = 0
    /\ managerToned = FALSE
    /\ managerWild = FALSE

\* playAlertTone(type): the time its delay(duration + 50) calls block for;
\* types without a case return at once.
toneDuration(type) ==
    CASE type \in {1, 3} -> 3 * (200 + 50)
      [] type = 2 -> 2 * (300 + 50)
      [] type = 4 -> 1 * (100 + 50)
      [] type = 5 -> 4 * (150 + 50)
      [] OTHER -> 0

\* An alert counted as active whatever its acknowledged flag.
soundsAlways(alert) == TRUE

\* The test hasActiveAlerts() and handleBuzzer() apply to a stored alert.
sounds(alert) == ~alert.acknowledged

\* bool AlertManager::hasActiveAlerts()
hasActiveAlerts == \E k \in 1 .. Len(alerts) : sounds(alerts[k])

\* The highestPriority handleBuzzer() finds: the largest type among the
\* alerts that sound, ALERT_NONE if there is none.
highestPriority ==
    LET types == { alerts[k].type : k \in { j \in 1 .. Len(alerts) : sounds(alerts[j]) } }
    IN  IF types = {} THEN ALERT_NONE
        ELSE CHOOSE t \in types : \A u \in types : u <= t

\* A duplicate test that never finds a recent alert.
isRecentNever(age) == FALSE

\* The age test of addAlert: (millis() - alerts[i].timestamp) < 30000.
isRecent(age) == age < 30000

\* A shift that drops the newest alert.
shiftAlertsDropNewest(stored) == SubSeq(stored, 1, Len(stored) - 1)

\* void AlertManager::shiftAlerts() followed by alertCount = MAX_ALERTS - 1:
\* the stored alerts it leaves.
shiftAlerts(stored) == Tail(stored)

\* The index test of acknowledgeAlert: index >= 0 && index < alertCount.
indexStored(index, count) == index >= 0 /\ index < count

\* void AlertManager::addAlert(AlertType type, String message)
addAlert(type) ==
    /\ managerOps < MaxManagerOps
    /\ managerOps' = managerOps + 1
    /\ managerLastOp' = "addAlert"
    /\ managerArg' = -1
    /\ managerBefore' = alerts
    /\ managerType' = type
    /\ managerAt' = managerNow
    /\ IF \E k \in 1 .. Len(alerts) :
             alerts[k].type = type /\ isRecent(managerNow - alerts[k].timestamp)
       THEN \* a recent alert of the same type exists: return
            /\ managerToned' = FALSE
            /\ UNCHANGED <<alerts, managerNow, tonePlayed, managerWild>>
       ELSE LET kept == IF Len(alerts) >= MANAGER_MAX_ALERTS THEN shiftAlerts(alerts)
                        ELSE alerts
                \* the slot written: alertCount, or MAX_ALERTS - 1 after a shift
                slot == IF Len(alerts) >= MANAGER_MAX_ALERTS THEN MANAGER_MAX_ALERTS - 1
                        ELSE Len(alerts)
            IN  /\ alerts' = Append(kept, [type |-> type, timestamp |-> managerNow,
                                           acknowledged |-> FALSE])
                /\ tonePlayed' = IF buzzerEnabled THEN type ELSE ALERT_NONE
                /\ managerToned' = buzzerEnabled
                /\ managerWild' = (managerWild \/ slot \notin 0 .. (MANAGER_MAX_ALERTS - 1))
                /\ managerNow' = IF buzzerEnabled THEN managerNow + toneDuration(type)
                                 ELSE managerNow
    /\ UNCHANGED <<lastBuzzerTime, buzzerEnabled>>
    /\ UNCHANGED notManagerVars

\* void AlertManager::acknowledgeAlert(int index)
acknowledgeAlert(index) ==
    /\ managerOps < MaxManagerOps
    /\ managerOps' = managerOps + 1
    /\ managerLastOp' = "acknowledgeAlert"
    /\ managerArg' = index
    /\ managerBefore' = alerts
    /\ managerType' = ALERT_NONE
    /\ managerAt' = managerNow
    /\ managerToned' = FALSE
    /\ alerts' = IF indexStored(index, Len(alerts)) /\ index + 1 \in DOMAIN alerts
                 THEN [alerts EXCEPT ![index + 1].acknowledged = TRUE]
                 ELSE alerts
    /\ managerWild' = (\/ managerWild
                       \/ /\ indexStored(index, Len(alerts))
                          /\ index \notin 0 .. (MANAGER_MAX_ALERTS - 1))
    /\ UNCHANGED <<lastBuzzerTime, buzzerEnabled, managerNow, tonePlayed>>
    /\ UNCHANGED notManagerVars

\* void AlertManager::clearAllAlerts()
clearAllAlerts ==
    /\ managerOps < MaxManagerOps
    /\ managerOps' = managerOps + 1
    /\ managerLastOp' = "clearAllAlerts"
    /\ managerArg' = -1
    /\ managerBefore' = alerts
    /\ managerType' = ALERT_NONE
    /\ managerAt' = managerNow
    /\ managerToned' = FALSE
    /\ alerts' = << >>
    /\ UNCHANGED managerWild
    /\ UNCHANGED <<lastBuzzerTime, buzzerEnabled, managerNow, tonePlayed>>
    /\ UNCHANGED notManagerVars

\* void AlertManager::setBuzzerEnabled(bool enabled)
setBuzzerEnabled(b) ==
    /\ managerOps < MaxManagerOps
    /\ managerOps' = managerOps + 1
    /\ managerLastOp' = "setBuzzerEnabled"
    /\ managerArg' = -1
    /\ managerBefore' = alerts
    /\ managerType' = ALERT_NONE
    /\ managerAt' = managerNow
    /\ managerToned' = FALSE
    /\ buzzerEnabled' = b
    /\ UNCHANGED managerWild
    /\ UNCHANGED <<alerts, lastBuzzerTime, managerNow, tonePlayed>>
    /\ UNCHANGED notManagerVars

\* void AlertManager::handleBuzzer(), called dt ms after the previous call
\* returned.
handleBuzzer(dt) ==
    /\ managerOps < MaxManagerOps
    /\ managerOps' = managerOps + 1
    /\ managerLastOp' = "handleBuzzer"
    /\ managerArg' = -1
    /\ managerBefore' = alerts
    /\ managerType' = ALERT_NONE
    /\ managerAt' = managerNow + dt
    /\ UNCHANGED managerWild
    /\ LET t == managerNow + dt
       IN  IF ~buzzerEnabled \/ ~hasActiveAlerts
           THEN /\ managerNow' = t
                /\ tonePlayed' = ALERT_NONE
                /\ managerToned' = FALSE
                /\ UNCHANGED lastBuzzerTime
           ELSE IF t - lastBuzzerTime > 2000 /\ highestPriority # ALERT_NONE
           THEN /\ tonePlayed' = highestPriority
                /\ managerToned' = TRUE
                /\ managerNow' = t + toneDuration(highestPriority)
                /\ lastBuzzerTime' = t + toneDuration(highestPriority)
           ELSE /\ managerNow' = t
                /\ tonePlayed' = ALERT_NONE
                /\ managerToned' = FALSE
                /\ UNCHANGED lastBuzzerTime
    /\ UNCHANGED <<alerts, buzzerEnabled>>
    /\ UNCHANGED notManagerVars

NextManager ==
    \/ \E type \in AddedTypes : addAlert(type)
    \/ \E index \in AckIndices : acknowledgeAlert(index)
    \/ clearAllAlerts
    \/ \E b \in BOOLEAN : setBuzzerEnabled(b)
    \/ \E dt \in BuzzerSteps : handleBuzzer(dt)

(***************************************************************************)
(* The sketch: WiFi start-up and configuration mode (unnamed/part_007)     *)
(***************************************************************************)

MAX_RETRY_ATTEMPTS == 3

AP_SSID == "CardiacMonitor_Setup"

\* Passes of loop() after which the sketch is back at the same place of its
\* periodic work (sensor update, display refresh, alert check).
WiFiTicks == 4

\* The networks preferences can hold: none (first boot) or one.
StoredSSIDs == {"", "HomeNet"}

WiFiInit ==
    /\ wifiSSID \in StoredSSIDs
    /\ networkReachable \in BOOLEAN
    /\ wifiStatus = "WL_DISCONNECTED"
    /\ wifiConnected = FALSE
    /\ configModeActive = FALSE
    /\ connectionAttempts = 0
    /\ hotspot = ""
    /\ wifiPhase = "setup"
    /\ wifiTick = 0

\* void startConfigMode(): the values it leaves in configModeActive and in
\* the access point.
startConfigMode ==
    /\ configModeActive' = TRUE
    /\ hotspot' = AP_SSID

\* void connectToWiFi(), with joined the outcome of its wait for
\* WiFi.status() == WL_CONNECTED within CONNECTION_TIMEOUT.
connectToWiFi(joined) ==
    IF wifiSSID = ""
    THEN UNCHANGED <<wifiStatus, wifiConnected, connectionAttempts, configModeActive, hotspot>>
    ELSE IF joined
    THEN /\ wifiStatus' = "WL_CONNECTED"
         /\ wifiConnected' = TRUE
         /\ UNCHANGED <<connectionAttempts, configModeActive, hotspot>>
    ELSE /\ wifiStatus' = "WL_DISCONNECTED"
         /\ wifiConnected' = FALSE
         /\ connectionAttempts' = connectionAttempts + 1
         /\ IF connectionAttempts + 1 >= MAX_RETRY_ATTEMPTS
            THEN startConfigMode
            ELSE UNCHANGED <<configModeActive, hotspot>>

\* void initializeWiFi(), the last step of setup(): connectToWiFi() if
\* credentials are stored, nothing otherwise.
initializeWiFi(joined) ==
    /\ wifiPhase = "setup"
    /\ wifiPhase' = "loop"
    /\ IF wifiSSID # ""
       THEN connectToWiFi(joined)
       ELSE UNCHANGED <<wifiStatus, wifiConnected, connectionAttempts, configModeActive, hotspot>>
    /\ UNCHANGED <<wifiSSID, networkReachable, wifiTick>>
    /\ UNCHANGED notWiFiVars

\* void handleWiFiConnection(): wifiConnected follows WiFi.status().
handleWiFiConnection ==
    wifiConnected' = (wifiStatus = "WL_CONNECTED")

\* The WiFi part of one pass of loop().
wifiLoop ==
    /\ wifiPhase = "loop"
    /\ wifiTick' = (wifiTick + 1) % WiFiTicks
    /\ IF configModeActive
       THEN UNCHANGED wifiConnected
       ELSE handleWiFiConnection
    /\ UNCHANGED <<wifiSSID, networkReachable, wifiStatus, configModeActive, connectionAttempts,
                   hotspot, wifiPhase>>
    /\ UNCHANGED notWiFiVars

\* The radio gains or loses the link to the stored network after WiFi.begin().
linkChange ==
    /\ wifiPhase = "loop"
    /\ wifiSSID # ""
    /\ networkReachable
    /\ wifiStatus' = IF wifiStatus = "WL_CONNECTED" THEN "WL_DISCONNECTED" ELSE "WL_CONNECTED"
    /\ UNCHANGED <<wifiSSID, networkReachable, wifiConnected, configModeActive,
                   connectionAttempts, hotspot, wifiPhase, wifiTick>>
    /\ UNCHANGED notWiFiVars

\* The user touches the WiFi button of the main screen (handleMainScreenTouch).
touchWiFiButton ==
    /\ wifiPhase = "loop"
    /\ startConfigMode
    /\ UNCHANGED <<wifiSSID, networkReachable, wifiStatus, wifiConnected, connectionAttempts,
                   wifiPhase, wifiTick>>
    /\ UNCHANGED notWiFiVars

\* The user sends the serial command "config" (handleSerialCommands).
serialConfigCommand ==
    /\ wifiPhase = "loop"
    /\ startConfigMode
    /\ UNCHANGED <<wifiSSID, networkReachable, wifiStatus, wifiConnected, connectionAttempts,
                   wifiPhase, wifiTick>>
    /\ UNCHANGED notWiFiVars

\* The steps the firmware takes by itself.
wifiFirmware ==
    \/ \E joined \in {j \in BOOLEAN : j => networkReachable} : initializeWiFi(joined)
    \/ wifiLoop

NextWiFi ==
    \/ \E joined \in {j \in BOOLEAN : j => networkReachable} : initializeWiFi(joined)
    \/ wifiLoop
    \/ linkChange
    \/ touchWiFiButton
    \/ serialConfigCommand

(***************************************************************************)
(* The cardiac_impo.ino sketch: readSensors, checkForBeat, checkAlerts     *)
(***************************************************************************)

\* Bound on the passes of loop() of a run.
MaxImpoPasses == 4

IMPO_READ_INTERVAL == 100

IMPO_CHECK_INTERVAL == 2000

\* The delays of triggerAlert: three times delay(200) twice.
IMPO_TRIGGER_DELAY == 3 * (200 + 200)

\* alertThresholds = {100.0, 95.0, 0.0, 20.0, false, 0}
impoHeartRateThreshold == 100

impoSpO2Threshold == 95

impoBatteryThreshold == 20

\* Time from one pass of loop() to the next, in ms: the delay(50) of loop()
\* alone, and with slow display and logging work added.
ImpoSteps == {50, 2000}

\* What particleSensor offers to one readSensors: nothing (<< >>), or a
\* pair <<infrared, red>>: the trough and the peak of a pulsatile signal.
ImpoReadings == {<< >>, <<1000, 1000>>, <<60000, 52000>>}

\* Battery levels read by readSensors, in percent.
ImpoBatteries == {17, 50}

\* The clock ticks that may pass between two millis() calls of one
\* checkForBeat invocation.
MillisTicks == {0, 1}

ImpoInit ==
    /\ impoThreshold = 512
    /\ impoBeatDetected = FALSE
    /\ impoLastBeatTime = 0
    /\ impoLastReading = 0
    /\ impoVitals = [heartRate |-> 0, spO2 |-> 0, batteryLevel |-> 0, isFingerDetected |-> FALSE]
    /\ impoAlertActive = FALSE
    /\ impoLastAlertCheck = 0
    /\ impoNow = 0
    /\ impoPasses = 0
    /\ impoBeatCall = [called |-> FALSE, qualified |-> FALSE, returned |-> FALSE]
    /\ impoEvaluated = FALSE
    /\ impoBreach = FALSE
    /\ impoEvalAt = -1
    /\ impoEvalGap = -1
    /\ impoTriggered = FALSE
    /\ impoTriggers = 0
    /\ impoRearmed = FALSE
    /\ impoRearmedBefore = FALSE

\* long delta = millis() - lastBeatTime in checkForBeat, computed after
\* lastBeatTime = millis(): the time between the two millis() calls.
impoBeatDelta(t, tick, lbt) == tick

\* bool checkForBeat(long sample) of cardiac_impo.ino at millis() = t: the
\* value returned and the statics it leaves.
impoCheckForBeat(sample, t, tick) ==
    LET smoothed == CDiv(impoThreshold * 15 + sample, 16)
        delta == impoBeatDelta(t, tick, impoLastBeatTime)
    IN  IF sample > impoThreshold /\ ~impoBeatDetected /\ (t - impoLastBeatTime) > 300
        THEN IF delta > 300 /\ delta < 3000
             THEN [returned |-> TRUE, threshold |-> impoThreshold,
                   beatDetected |-> TRUE, lastBeatTime |-> t]
             ELSE [returned |-> FALSE, threshold |-> smoothed,
                   beatDetected |-> TRUE, lastBeatTime |-> t]
        ELSE [returned |-> FALSE, threshold |-> smoothed,
              beatDetected |-> IF sample < impoThreshold - 50 THEN FALSE ELSE impoBeatDetected,
              lastBeatTime |-> impoLastBeatTime]

\* The three conditions of a beat hold for sample at millis() = t.
impoBeatQualified(sample, t) ==
    sample > impoThreshold /\ ~impoBeatDetected /\ (t - impoLastBeatTime) > 300

\* The simplified SpO2 of readSensors: 104 - 17 * red / ir clamped to
\* [70, 100], as whole percent rounded down (comparisons with the whole
\* percent limit 95 are the same as for the float).
impoSpO2(ir, red) ==
    LET raw == (104 * ir - 17 * red) \div ir
    IN  IF raw > 100 THEN 100 ELSE IF raw < 70 THEN 70 ELSE raw

\* currentVitals after readSensors() at millis() = t (its 100 ms gate passed)
\* with the given reading and battery level; beat is the result of
\* impoCheckForBeat.
impoReadVitals(reading, battery, t, beat) ==
    LET delta == t - impoLastReading
        bpm == IF delta > 0 THEN 60000 \div delta ELSE 255
        afterBeat ==
            IF Len(reading) = 0
            THEN [impoVitals EXCEPT !.isFingerDetected = FALSE]
            ELSE IF beat.returned /\ bpm < 255 /\ bpm > 20
            THEN [impoVitals EXCEPT !.heartRate = bpm, !.isFingerDetected = TRUE]
            ELSE impoVitals
        afterSpO2 ==
            IF Len(reading) # 0 /\ reading[1] > 50000 /\ reading[2] > 50000
            THEN [afterBeat EXCEPT !.spO2 = impoSpO2(reading[1], reading[2])]
            ELSE afterBeat
    IN  [afterSpO2 EXCEPT !.batteryLevel = battery]

\* shouldAlert of checkAlerts() for the vitals v.
impoShouldAlert(v) ==
    \/ /\ v.isFingerDetected
       /\ \/ v.heartRate > impoHeartRateThreshold + 20
          \/ v.heartRate < impoHeartRateThreshold - 20
          \/ v.spO2 < impoSpO2Threshold
    \/ v.batteryLevel < impoBatteryThreshold

\* A latch that is never set.
impoLatchNeverSet(should, active) == FALSE

\* alertActive after an evaluation of checkAlerts.
impoLatch(should, active) ==
    IF should /\ ~active THEN TRUE ELSE IF ~should THEN FALSE ELSE active

\* One pass of loop(), dt ms after the previous one: readSensors() and then
\* checkAlerts().
impoLoop(dt, reading, battery, tick) ==
    /\ impoPasses < MaxImpoPasses
    /\ impoPasses' = impoPasses + 1
    /\ LET t == impoNow + dt
           reads == ~(t - impoLastReading < IMPO_READ_INTERVAL)
           calls == reads /\ Len(reading) # 0
           beat == IF calls
                   THEN impoCheckForBeat(reading[1], t, tick)
                   ELSE [returned |-> FALSE, threshold |-> impoThreshold,
                         beatDetected |-> impoBeatDetected, lastBeatTime |-> impoLastBeatTime]
           v == IF reads THEN impoReadVitals(reading, battery, t, beat) ELSE impoVitals
           evaluates == ~(t - impoLastAlertCheck < IMPO_CHECK_INTERVAL)
           should == impoShouldAlert(v)
           triggers == evaluates /\ should /\ ~impoAlertActive
           end == IF triggers THEN t + IMPO_TRIGGER_DELAY ELSE t
       IN  /\ impoThreshold' = beat.threshold
           /\ impoBeatDetected' = beat.beatDetected
           /\ impoLastBeatTime' = beat.lastBeatTime
           /\ impoLastReading' = IF calls /\ beat.returned THEN t ELSE impoLastReading
           /\ impoVitals' = v
           /\ impoBeatCall' = IF calls
                              THEN [called |-> TRUE,
                                    qualified |-> impoBeatQualified(reading[1], t),
                                    returned |-> beat.returned]
                              ELSE [called |-> FALSE, qualified |-> FALSE, returned |-> FALSE]
           /\ impoAlertActive' = IF evaluates
                                 THEN impoLatch(should, impoAlertActive)
                                 ELSE impoAlertActive
           /\ impoLastAlertCheck' = IF evaluates THEN end ELSE impoLastAlertCheck
           /\ impoNow' = end
           /\ impoEvaluated' = evaluates
           /\ impoBreach' = IF evaluates THEN should ELSE impoBreach
           /\ impoEvalAt' = IF evaluates THEN t ELSE impoEvalAt
           /\ impoEvalGap' = IF evaluates /\ impoEvalAt # -1 THEN t - impoEvalAt ELSE impoEvalGap
           /\ impoTriggered' = triggers
           /\ impoTriggers' = IF triggers THEN impoTriggers + 1 ELSE impoTriggers
           /\ impoRearmedBefore' = IF evaluates THEN impoRearmed ELSE impoRearmedBefore
           /\ impoRearmed' = IF triggers THEN FALSE
                             ELSE IF evaluates /\ ~should THEN TRUE
                             ELSE impoRearmed
    /\ UNCHANGED notImpoVars

NextImpo ==
    \E dt \in ImpoSteps, reading \in ImpoReadings, battery \in ImpoBatteries, tick \in MillisTicks :
        impoLoop(dt, reading, battery, tick)

(***************************************************************************)
(* The array-based alert engine (unnamed/part_002), slot by slot           *)
(***************************************************************************)

\* Bound on the calls of a run.
MaxArrOps == 5

\* checkMemoryUsage trims the history when alertHistoryCount > 10, half of
\* MAX_HISTORY = 20, ...
HISTORY_TRIM_ABOVE == MAX_HISTORY \div 2

\* ... by 5 entries, a quarter of it (rounded up in the scaled model).
HISTORY_TRIM == (MAX_HISTORY + 3) \div 4

MEM_CHECK_INTERVAL == 30000

LOW_MEMORY == 500

\* Time before a call, in ms: the cooldown, and more than the expiry and
\* the memory check interval.
ArrSteps == {5000, 31000}

\* freeMemory() as checkMemoryUsage reads it.
FreeMemories == {400, 1000}

ActiveSlots == 0 .. (MAX_ALERTS - 1)

HistorySlots == 0 .. (MAX_HISTORY - 1)

\* The content of a slot never written.
NoAlert == [id |-> 0, timestamp |-> 0, acknowledged |-> FALSE]

ArrInit ==
    /\ arrActive = [i \in ActiveSlots |-> NoAlert]
    /\ arrActiveCount = 0
    /\ arrHistory = [i \in HistorySlots |-> NoAlert]
    /\ arrHistoryCount = 0
    /\ arrLastAlertTime = 0
    /\ arrLastMemCheck = 0
    /\ arrNow = BOOT_TIME
    /\ arrOps = 0
    /\ arrStored = 0
    /\ arrWild = FALSE
    /\ arrLastOp = "boot"

\* A store guard that lets one alert too many in.
arrHasRoomOffByOne(count, capacity) == count <= capacity

\* The store guards of triggerAlert: activeAlertsCount < MAX_ALERTS and
\* alertHistoryCount < MAX_HISTORY.
arrHasRoom(count, capacity) == count < capacity

\* array[index] = alert: the array after the store; a store outside the
\* array leaves it as it is (and is recorded in arrWild by the caller).
arrStore(array, index, alert) ==
    IF index \in DOMAIN array THEN [array EXCEPT ![index] = alert] ELSE array

\* memmove(array, array + from, n * sizeof(Alert)): the array after the move.
arrMoveDown(array, from, n) ==
    [i \in DOMAIN array |-> IF i < n /\ (i + from) \in DOMAIN array THEN array[i + from]
                            ELSE array[i]]

\* void triggerAlert(int level, const char* message), dt ms after the previous call.
arrTriggerAlert(dt) ==
    /\ arrOps < MaxArrOps
    /\ arrOps' = arrOps + 1
    /\ arrNow' = arrNow + dt
    /\ arrLastOp' = "triggerAlert"
    /\ LET t == arrNow + dt
           alert == [id |-> arrStored + 1, timestamp |-> t, acknowledged |-> FALSE]
           toActive == arrHasRoom(arrActiveCount, MAX_ALERTS)
           toHistory == arrHasRoom(arrHistoryCount, MAX_HISTORY)
       IN  IF t - arrLastAlertTime < ALERT_COOLDOWN
           THEN UNCHANGED <<arrActive, arrActiveCount, arrHistory, arrHistoryCount,
                            arrLastAlertTime, arrStored, arrWild>>
           ELSE /\ arrActive' = IF toActive THEN arrStore(arrActive, arrActiveCount, alert)
                                ELSE arrActive
                /\ arrActiveCount' = IF toActive THEN arrActiveCount + 1 ELSE arrActiveCount
                /\ arrHistory' =
                       IF toHistory THEN arrStore(arrHistory, arrHistoryCount, alert)
                       ELSE arrStore(arrMoveDown(arrHistory, 1, MAX_HISTORY - 1),
                                     MAX_HISTORY - 1, alert)
                /\ arrHistoryCount' = IF toHistory THEN arrHistoryCount + 1 ELSE arrHistoryCount
                /\ arrLastAlertTime' = t
                /\ arrStored' = arrStored + 1
                /\ arrWild' = (\/ arrWild
                               \/ toActive /\ arrActiveCount \notin ActiveSlots
                               \/ toHistory /\ arrHistoryCount \notin HistorySlots)
    /\ UNCHANGED arrLastMemCheck
    /\ UNCHANGED notArrVars

\* The slots removeOldAlerts keeps, in order: not acknowledged and at most
\* 30000 ms old.
RECURSIVE arrKept(_, _)
arrKept(n, currentTime) ==
    IF n = 0 THEN << >>
    ELSE LET rest == arrKept(n - 1, currentTime)
             a == arrActive[n - 1]
         IN  IF ~a.acknowledged /\ (currentTime - a.timestamp <= ALERT_EXPIRY)
             THEN Append(rest, a) ELSE rest

\* void removeOldAlerts(), dt ms after the previous call.
arrRemoveOldAlerts(dt) ==
    /\ arrOps < MaxArrOps
    /\ arrOps' = arrOps + 1
    /\ arrNow' = arrNow + dt
    /\ arrLastOp' = "removeOldAlerts"
    /\ LET kept == arrKept(arrActiveCount, arrNow + dt)
       IN  /\ arrActive' = [i \in ActiveSlots |-> IF i < Len(kept) THEN kept[i + 1]
                                                  ELSE arrActive[i]]
           /\ arrActiveCount' = Len(kept)
           /\ arrWild' = (arrWild \/ Len(kept) > MAX_ALERTS)
    /\ UNCHANGED <<arrHistory, arrHistoryCount, arrLastAlertTime, arrLastMemCheck, arrStored>>
    /\ UNCHANGED notArrVars

\* void checkMemoryUsage(), dt ms after the previous call, freeMemory()
\* returning freeMem: its part on the alert history.
arrCheckMemoryUsage(dt, freeMem) ==
    /\ arrOps < MaxArrOps
    /\ arrOps' = arrOps + 1
    /\ arrNow' = arrNow + dt
    /\ arrLastOp' = "checkMemoryUsage"
    /\ LET t == arrNow + dt
           due == t - arrLastMemCheck > MEM_CHECK_INTERVAL
           trims == due /\ freeMem < LOW_MEMORY /\ arrHistoryCount > HISTORY_TRIM_ABOVE
       IN  /\ arrLastMemCheck' = IF due THEN t ELSE arrLastMemCheck
           /\ arrHistory' = IF trims
                            THEN arrMoveDown(arrHistory, HISTORY_TRIM,
                                             arrHistoryCount - HISTORY_TRIM)
                            ELSE arrHistory
           /\ arrHistoryCount' = IF trims THEN arrHistoryCount - HISTORY_TRIM
                                 ELSE arrHistoryCount
           /\ arrWild' = (arrWild \/ (trims /\ arrHistoryCount > MAX_HISTORY))
    /\ UNCHANGED <<arrActive, arrActiveCount, arrLastAlertTime, arrStored>>
    /\ UNCHANGED notArrVars

NextArr ==
    \/ \E dt \in ArrSteps : arrTriggerAlert(dt)
    \/ \E dt \in ArrSteps : arrRemoveOldAlerts(dt)
    \/ \E dt \in ArrSteps, freeMem \in FreeMemories : arrCheckMemoryUsage(dt, freeMem)

(***************************************************************************)
(* The alert engine over unbounded time: evaluation cycles with the clock  *)
(* kept relative to lastAlertTime                                          *)
(***************************************************************************)

\* Time from the end of one evaluation cycle to the start of the next, in ms:
\* the interval of checkAlerts, and a loop held up by other work.
CycleSteps == {1000, 2500}

\* Snapshots with alerts due: a low battery alone, with a heart rate or an
\* SpO2 value in breach and a finger on the sensor, and with values in range.
CycleSnapshots ==
    { LowBattery,
      [heartRate |-> 45, spO2 |-> 98, batteryLevel |-> 8, isFingerDetected |-> TRUE],
      [heartRate |-> 110, spO2 |-> 98, batteryLevel |-> 15, isFingerDetected |-> TRUE],
      [heartRate |-> 72, spO2 |-> 92, batteryLevel |-> 15, isFingerDetected |-> TRUE],
      [heartRate |-> 72, spO2 |-> 98, batteryLevel |-> 15, isFingerDetected |-> TRUE],
      [heartRate |-> 72, spO2 |-> 98, batteryLevel |-> 50, isFingerDetected |-> TRUE] }

\* currentVitals before the first updateSensors(): a zero-initialised global.
NoSnapshot == [heartRate |-> 0, spO2 |-> 0, batteryLevel |-> 0, isFingerDetected |-> FALSE]

\* An elapsed time as the cooldown gate sees it: all times from ALERT_COOLDOWN
\* on pass the gate alike.
capElapsed(ms) == IF ms > ALERT_COOLDOWN THEN ALERT_COOLDOWN ELSE ms

CycleInit ==
    /\ cycElapsed = BOOT_TIME
    /\ cycVitals = NoSnapshot
    /\ cycAppended = << >>
    /\ cycBatteryAlerted = FALSE

\* One evaluation cycle of the enabled engine, d ms after the previous one
\* ended, on the snapshot v: the threshold checks of checkAlerts() with
\* their triggerAlert calls.
evaluationCycle(d, v) ==
    LET elapsed == capElapsed(cycElapsed + d)
        e == checkThresholds([active |-> << >>, history |-> << >>, last |-> 0,
                              clock |-> elapsed, log |-> << >>, passed |-> << >>], v)
    IN  /\ cycVitals' = v
        /\ cycElapsed' = capElapsed(e.clock - e.last)
        /\ cycAppended' = [k \in 1 .. Len(e.history) |-> e.history[k].message[1]]
        /\ cycBatteryAlerted' =
               (cycBatteryAlerted \/ \E k \in 1 .. Len(e.history) :
                                         e.history[k].message[1] = "Low battery")
        /\ UNCHANGED notCycleVars

NextCycle == \E d \in CycleSteps, v \in CycleSnapshots : evaluationCycle(d, v)

(***************************************************************************)
(* The simplified Uno sketch (cardiac_monitor_arduino_uno.ino): loop and   *)
(* checkAlerts, with the clock kept relative to lastAlertCheck             *)
(***************************************************************************)

UNO_CHECK_INTERVAL == 1000

UNO_ALERT_COOLDOWN == 5000

UNO_ALERT_SHOWN == 5000

\* playAlertSound(): two beeps of delay(200) on and delay(200) off.
UNO_SOUND == 2 * (200 + 200)

\* Time from the end of one pass of loop() to the start of the next, in ms
\* (the passes that change nothing are left out).
UnoSteps == {500, 1000}

\* Time a pass spends in handleButtons, updateSensors, updateDisplay and
\* logData before it reaches the alert check, in ms: next to nothing, and a
\* pass held up for the whole cooldown.
UnoBusy == {0, 5000}

\* The snapshots updateSensors leaves.
UnoSnapshots ==
    { LowBattery,
      [heartRate |-> 45, spO2 |-> 98, batteryLevel |-> 50, isFingerDetected |-> TRUE],
      [heartRate |-> 72, spO2 |-> 92, batteryLevel |-> 15, isFingerDetected |-> TRUE],
      [heartRate |-> 72, spO2 |-> 98, batteryLevel |-> 50, isFingerDetected |-> TRUE] }

\* A time kept up to a limit that the code's comparisons cannot tell from
\* any larger one.
capAt(ms, limit) == IF ms > limit THEN limit ELSE ms

UnoInit ==
    /\ unoSinceCheck = UNO_CHECK_INTERVAL
    /\ unoVitals = NoSnapshot
    /\ unoAlertActive = FALSE
    /\ unoMessage = ""
    /\ unoAlertAge = 0
    /\ unoReached = FALSE
    /\ unoPastGate = FALSE

\* The gate of checkAlerts: if (millis() - lastAlertCheck < ALERT_COOLDOWN)
\* return; sinceCheck is millis() - lastAlertCheck at the call.
unoGateOpen(sinceCheck) == ~(sinceCheck < UNO_ALERT_COOLDOWN)

\* The messages checkAlerts() sets for the snapshot v once past its gate, in
\* the order of its three checks.
unoAlertsFor(v) ==
    (IF v.isFingerDetected /\ v.heartRate > 0
        /\ (v.heartRate < heartRateMin \/ v.heartRate > heartRateMax)
     THEN <<"HR">> ELSE << >>)
    \o (IF v.isFingerDetected /\ v.spO2 > 0 /\ v.spO2 < spO2Min THEN <<"SpO2">> ELSE << >>)
    \o (IF v.batteryLevel < batteryMin THEN <<"Bat">> ELSE << >>)

\* One pass of loop(), d ms after the previous one ended, spending busy ms
\* before the alert check; updateSensors leaves v, and draws tells whether
\* updateDisplay() runs with the display on.
unoLoop(d, busy, v, draws) ==
    LET sinceCheck == capAt(unoSinceCheck + d, UNO_CHECK_INTERVAL)
        age == capAt(unoAlertAge + d, UNO_ALERT_SHOWN + 1)
        \* updateDisplay(): showAlert() clears an alert shown for over 5 s
        shown == IF draws /\ unoAlertActive /\ age > UNO_ALERT_SHOWN THEN FALSE
                 ELSE unoAlertActive
        due == sinceCheck >= UNO_CHECK_INTERVAL
        \* lastAlertCheck = currentTime; checkAlerts() reads millis() busy ms later
        past == due /\ unoGateOpen(busy)
        raised == IF past THEN unoAlertsFor(v) ELSE << >>
        spent == busy + Len(raised) * UNO_SOUND
    IN  /\ unoVitals' = v
        /\ unoReached' = due
        /\ unoPastGate' = past
        /\ unoAlertActive' = IF Len(raised) > 0 THEN TRUE ELSE shown
        /\ unoMessage' = IF Len(raised) > 0 THEN raised[Len(raised)] ELSE unoMessage
        /\ unoAlertAge' = IF Len(raised) > 0 THEN UNO_SOUND
                          ELSE capAt(age + spent, UNO_ALERT_SHOWN + 1)
        /\ unoSinceCheck' = IF due THEN capAt(spent, UNO_CHECK_INTERVAL)
                            ELSE capAt(sinceCheck + spent, UNO_CHECK_INTERVAL)
        /\ UNCHANGED notUnoVars

NextUno ==
    \E d \in UnoSteps, busy \in UnoBusy, v \in UnoSnapshots, draws \in BOOLEAN :
        unoLoop(d, busy, v, draws)

(***************************************************************************)
(* Specifications                                                          *)
(***************************************************************************)

Init == SpO2Init /\ BeatInit /\ VitalsInit /\ SensorsInit /\ AlertInit /\ ManagerInit
        /\ WiFiInit /\ ImpoInit /\ ArrInit /\ CycleInit /\ UnoInit

SpecSensors == Init /\ [][NextSensors]_vars

Spec == Init /\ [][Next]_vars

SpecBoot == Init /\ [][NextBoot]_vars

SpecManager == Init /\ [][NextManager]_vars

\* setup() runs to its end and loop() is called again and again; the user
\* is under no obligation to touch the screen or send a command.
SpecWiFi == Init /\ [][NextWiFi]_vars /\ WF_vars(wifiFirmware)

SpecSpO2 == Init /\ [][NextSpO2]_vars

SpecFinger == Init /\ [][NextFinger]_vars

SpecBeat == Init /\ [][NextBeat]_vars

SpecImpo == Init /\ [][NextImpo]_vars

SpecArr == Init /\ [][NextArr]_vars

\* Evaluation cycles keep coming: loop() runs forever.
SpecCycle == Init /\ [][NextCycle]_vars /\ WF_vars(NextCycle)

\* loop() of the Uno sketch runs forever.
SpecUno == Init /\ [][NextUno]_vars /\ WF_vars(NextUno)

(***************************************************************************)
(* SpO2Calculator: claims                                                  *)
(***************************************************************************)

\* The slot the n-th pushed pair (n = 1, 2, ...) is written to.
SlotOf(n) == (n - 1) % BUFFER_SIZE

\* C9 (buffer wraparound): once more than BUFFER_SIZE pairs have been added since
\* construction or the last reset(), bufferFull is set, bufferIndex is a valid
\* slot, every one of the last BUFFER_SIZE pairs sits in the slot of its push
\* ordinal modulo BUFFER_SIZE, and the oldest retained pair is at the write index.
C9_Wraparound ==
    Len(pushed) > BUFFER_SIZE =>
        /\ bufferFull
        /\ calcBufferIndex \in Slots
        /\ calcBufferIndex = Len(pushed) % BUFFER_SIZE
        /\ \A n \in (Len(pushed) - BUFFER_SIZE + 1) .. Len(pushed) :
              /\ calcIrBuffer[SlotOf(n)] = pushed[n][1]
              /\ calcRedBuffer[SlotOf(n)] = pushed[n][2]
        /\ calcIrBuffer[calcBufferIndex] = pushed[Len(pushed) - BUFFER_SIZE + 1][1]
        /\ calcRedBuffer[calcBufferIndex] = pushed[Len(pushed) - BUFFER_SIZE + 1][2]

\* A wrapped ring in which the first pushed pair has been overwritten by a
\* different one.
C9_Witness ==
    /\ Len(pushed) = BUFFER_SIZE + 2
    /\ pushed[1] # pushed[BUFFER_SIZE + 1]
    /\ calcIrBuffer[0] = pushed[BUFFER_SIZE + 1][1]
    /\ calcBufferIndex = 2 % BUFFER_SIZE

\* C10 (SpO2 insufficient data): with fewer than BUFFER_SIZE pairs added since
\* construction or the last reset(), calculateSpO2() returns 0 whatever the
\* samples are; reset() leaves the estimator not full, at index 0, all slots 0.
C10_InsufficientData ==
    /\ Len(pushed) < BUFFER_SIZE => calculateSpO2 = <<0, 1>>
    /\ calcLastOp = "reset" =>
          /\ ~bufferFull
          /\ calcBufferIndex = 0
          /\ \A i \in Slots : calcIrBuffer[i] = W(0) /\ calcRedBuffer[i] = W(0)

\* A ring one pair short of full, holding pulsatile non-zero samples.
C10_Witness ==
    /\ Len(pushed) = BUFFER_SIZE - 1
    /\ \A n \in 1 .. Len(pushed) : pushed[n][1] # W(0) /\ pushed[n][2] # W(0)
    /\ pushed[1] # pushed[2]
    /\ calculateSpO2 = <<0, 1>>


(***************************************************************************)
(* HeartRateCalculator: claims                                             *)
(***************************************************************************)

\* C7 (beat refractory): no two calls of checkForBeat that return true are less
\* than 300 ms apart, also when reset() is called between them.
C7_BeatRefractory == beatGap # -1 => beatGap >= 300

\* Two registered beats 301 ms apart with a reset() between them.
C7_Witness ==
    /\ beatGap = 301
    /\ resetBetween
    /\ beatAt = lastBeatTime

\* C8 (BPM plausibility): getBeatsPerMinute() is 0 or within [20, 200]; every
\* ring entry is 0 or within [20, 200]; 60000 / delta has only been evaluated
\* with 300 < delta < 3000.
C8_BpmPlausible ==
    /\ getBeatsPerMinute = 0 \/ (getBeatsPerMinute >= 20 /\ getBeatsPerMinute <= 200)
    /\ \A i \in 0 .. (RATE_ARRAY_SIZE - 1) :
          rateArray[i] = 0 \/ (rateArray[i] >= 20 /\ rateArray[i] <= 200)
    /\ lastDelta = -1 \/ (lastDelta > 300 /\ lastDelta < 3000)

\* The ring holds two different instantaneous rates, the slowest and the
\* fastest the interval test lets through, and their mean is reported.
C8_Witness ==
    /\ \E i, j \in 0 .. (RATE_ARRAY_SIZE - 1) : rateArray[i] = 199 /\ rateArray[j] = 20
    /\ getBeatsPerMinute > 20
    /\ getBeatsPerMinute < 199

(***************************************************************************)
(* Claims about the alert engine                                           *)
(***************************************************************************)

\* The timestamps of s are pairwise at least ALERT_COOLDOWN apart.
SpacedApart(s) ==
    \A i, j \in 1 .. Len(s) : i < j => s[j].timestamp - s[i].timestamp >= ALERT_COOLDOWN

\* The triggerAlert calls of the last checkAlerts that got past the gate.
PassedInCycle == { k \in 1 .. Len(trigLog) : trigLog[k].passed }

\* C1: any two alerts appended by triggerAlert have timestamps at least
\* 5000 ms apart, whatever their types, so do any two entries of Active Alerts
\* and of Alert History, and one evaluation cycle appends at most one alert
\* however many thresholds are in breach.
C1_AlertCooldown ==
    /\ SpacedApart(passed)
    /\ SpacedApart(activeAlerts)
    /\ SpacedApart(alertHistory)
    /\ Cardinality(PassedInCycle) <= 1
    /\ \A k \in 1 .. Len(trigLog) :
          ~trigLog[k].passed => trigLog[k].activeAfter = trigLog[k].activeBefore

\* C1 witness: a cycle with two breaches of different types, the first appended
\* and the second suppressed less than 5 s later, after an earlier alert.
C1_Witness ==
    /\ Len(passed) >= 2
    /\ Len(trigLog) = 2
    /\ trigLog[1].passed
    /\ ~trigLog[2].passed
    /\ trigLog[1].message[1] = "Low SpO2"
    /\ trigLog[2].message[1] = "Low battery"
    /\ trigLog[2].timestamp - trigLog[1].timestamp < ALERT_COOLDOWN

\* The indices of prePurge that the purge rule lets survive at purgeTime.
Survivors ==
    { i \in 1 .. Len(prePurge) :
        ~prePurge[i].acknowledged /\ purgeTime - prePurge[i].timestamp <= 30000 }

\* C3: right after a purge, Active Alerts holds no acknowledged alert and no
\* alert older than 30000 ms, and holds every other alert the purge found, in
\* the order it found them.
C3_AlertExpiry ==
    (alertLastOp = "loop" /\ purgeTime # -1) =>
        /\ \A k \in 1 .. Len(activeAlerts) :
              /\ ~activeAlerts[k].acknowledged
              /\ purgeTime - activeAlerts[k].timestamp <= 30000
        /\ Len(activeAlerts) = Cardinality(Survivors)
        /\ \A i \in Survivors :
              activeAlerts[Cardinality({ j \in Survivors : j <= i })] = prePurge[i]

\* C3 witness: a purge that found an expired unacknowledged alert, an
\* acknowledged alert that was not yet expired, and an alert it kept.
C3_Witness ==
    /\ alertLastOp = "loop"
    /\ purgeTime # -1
    /\ \E i, j \in 1 .. Len(prePurge) :
          /\ ~prePurge[i].acknowledged
          /\ purgeTime - prePurge[i].timestamp > 30000
          /\ prePurge[j].acknowledged
          /\ purgeTime - prePurge[j].timestamp <= 30000
    /\ Len(activeAlerts) >= 1
    /\ Len(activeAlerts) < Len(prePurge)

\* C4 (as the specification states it): after an evaluation cycle, with the
\* enable flag on or off, Active Alerts holds no acknowledged alert and no
\* alert older than 30000 ms.
C4_PurgeWhileDisabled ==
    (alertLastOp = "loop" /\ lastAlertCheck = now) =>
        \A k \in 1 .. Len(activeAlerts) :
            /\ ~activeAlerts[k].acknowledged
            /\ now - activeAlerts[k].timestamp <= 30000

\* C5 (as the specification states it): right after every triggerAlert that
\* got past the gate, the new alert is the last element of Active Alerts and
\* of Alert History, and Active Alerts is within its capacity in the array
\* sketches.
C5_ActiveEviction ==
    \A k \in PassedInCycle :
        LET t == trigLog[k]
            alert == [level |-> t.level, message |-> t.message, timestamp |-> t.timestamp,
                      acknowledged |-> FALSE]
        IN  /\ Len(t.activeAfter) >= 1
            /\ t.activeAfter[Len(t.activeAfter)] = alert
            /\ Len(t.historyAfter) >= 1
            /\ t.historyAfter[Len(t.historyAfter)] = alert

\* C6: after n alerts have got past the gate, Alert History is the most recent
\* min(n, MAX_HISTORY) of them in insertion order.
C6_HistoryEviction ==
    LET n == Len(passed)
        m == IF n < MAX_HISTORY THEN n ELSE MAX_HISTORY
    IN  /\ Len(alertHistory) = m
        /\ \A k \in 1 .. m : alertHistory[k] = passed[n - m + k]

\* C6 witness: one alert more than the history holds has got past the gate,
\* and the first of them is gone from the history.
C6_Witness ==
    /\ Len(passed) = MAX_HISTORY + 1
    /\ Len(alertHistory) = MAX_HISTORY
    /\ alertHistory[1] = passed[2]
    /\ alertHistory[MAX_HISTORY] = passed[MAX_HISTORY + 1]
    /\ \A k \in 1 .. MAX_HISTORY : alertHistory[k] # passed[1]

(***************************************************************************)
(* Claims about updateSensors                                              *)
(***************************************************************************)

\* C2 (as the specification states it): in every snapshot updateSensors
\* leaves, isFingerDetected false comes with heartRate 0 and spO2 0.
C2_FingerLossZeroing ==
    ~currentVitals.isFingerDetected =>
        (currentVitals.heartRate = 0 /\ currentVitals.spO2 = 0)

(***************************************************************************)
(* Claims about SpO2Calculator::calculateSpO2                              *)
(***************************************************************************)

\* The extremes of the two channels over the ring, as plain numbers (the
\* samples of SamplePairs are far below 2^31).
IrHigh == WVal(WMax({calcIrBuffer[i] : i \in Slots}))

IrLow == WVal(WMin({calcIrBuffer[i] : i \in Slots}))

RedHigh == WVal(WMax({calcRedBuffer[i] : i \in Slots}))

RedLow == WVal(WMin({calcRedBuffer[i] : i \in Slots}))

\* R = (redAC / redDC) / (irAC / irDC) as numerator and denominator.
RNum == (RedHigh - RedLow) * (IrHigh + IrLow)

RDen == (RedHigh + RedLow) * (IrHigh - IrLow)

\* clamp(110 - 25 * R, 70, 100) as a fraction.
ClampedSpO2 ==
    IF 110 * RDen - 25 * RNum > 100 * RDen THEN <<100, 1>>
    ELSE IF 110 * RDen - 25 * RNum < 70 * RDen THEN <<70, 1>>
    ELSE <<110 * RDen - 25 * RNum, RDen>>

\* C11 (as the specification states it): for a full buffer with non-zero IR
\* and red DC levels and a non-zero IR AC/DC ratio, calculateSpO2() returns
\* clamp(110 - 25 * R, 70, 100), which is 100 for R = 0.
C11_MappingClamping ==
    (bufferFull /\ IrHigh + IrLow # 0 /\ RedHigh + RedLow # 0 /\ IrHigh - IrLow # 0) =>
        calculateSpO2 = ClampedSpO2

(***************************************************************************)
(* Claims about the alert engine, followed from boot                       *)
(***************************************************************************)

\* The battery alerts of a list of alerts.
BatteryAlerts(s) == { k \in 1 .. Len(s) : s[k].message[1] = "Low battery" }

\* C12 (as the specification states it): after boot, three consecutive
\* evaluation cycles one second apart that read battery level 8 with no finger
\* leave exactly one alert in Alert History, Critical and carrying the value 8,
\* and never more than one battery alert in Active Alerts.
C12_LowBatteryEndToEnd ==
    (fed = << <<0, LowBattery>>, <<1000, LowBattery>>, <<1000, LowBattery>> >>) =>
        /\ Len(alertHistory) = 1
        /\ alertHistory[1].level = "CRITICAL"
        /\ alertHistory[1].message = <<"Low battery", 8>>
        /\ Cardinality(BatteryAlerts(activeAlerts)) <= 1

\* The value of snapshot v that an alert with message m reports.
ReportedValue(m, v) ==
    CASE m[1] = "Heart rate" -> v.heartRate
      [] m[1] = "Low SpO2" -> v.spO2
      [] OTHER -> v.batteryLevel

\* Whether the value x of an alert of kind k calls for Critical severity.
IsCritical(k, x) ==
    CASE k = "Heart rate" -> x < 50 \/ x > 120
      [] k = "Low SpO2" -> x < 90
      [] OTHER -> x < 10

\* C13: every alert appended by the engine, as found in Active Alerts, in
\* Alert History and in the record of appended alerts, is Critical exactly
\* when its value is a heart rate below 50 or above 120, an SpO2 below 90 or a
\* battery level below 10, and Warning otherwise.
C13_SeverityAssignment ==
    \A s \in {passed, activeAlerts, alertHistory} :
        \A k \in 1 .. Len(s) :
            /\ s[k].level \in {"CRITICAL", "WARNING"}
            /\ s[k].level = "CRITICAL" <=> IsCritical(s[k].message[1], s[k].message[2])

\* C13 witness: a Warning heart-rate alert for a rate above heartRateMax but
\* not above 120, followed by a Critical alert.
C13_Witness ==
    /\ Len(alertHistory) = 2
    /\ alertHistory[1].level = "WARNING"
    /\ alertHistory[1].message = <<"Heart rate", 110>>
    /\ alertHistory[2].level = "CRITICAL"

\* The loop() pass just taken ran the threshold checks of checkAlerts.
ChecksRan == alertLastOp = "loop" /\ purgeTime # -1

\* C14: in an evaluation cycle whose snapshot has no finger, no heart-rate and
\* no SpO2 alert is triggered; none is triggered for a value of 0; a
\* heart-rate alert is triggered only for a rate below heartRateMin or above
\* heartRateMax, an SpO2 alert only for a value below spO2Min; and the alert
\* reports the value of the snapshot.
C14_EvaluationGating ==
    ChecksRan =>
        \A k \in 1 .. Len(trigLog) :
            LET m == trigLog[k].message
            IN  /\ m[1] = "Heart rate" =>
                      /\ currentVitals.isFingerDetected
                      /\ currentVitals.heartRate # 0
                      /\ m[2] = currentVitals.heartRate
                      /\ (m[2] < 60 \/ m[2] > 100)
                /\ m[1] = "Low SpO2" =>
                      /\ currentVitals.isFingerDetected
                      /\ currentVitals.spO2 # 0
                      /\ m[2] = currentVitals.spO2
                      /\ m[2] < 95

\* C14 witness: a cycle past the cooldown that read a heart rate of 45 and an
\* SpO2 of 85 with no finger detected, and triggered nothing.
C14_Witness ==
    /\ ChecksRan
    /\ now - lastAlertTime >= ALERT_COOLDOWN
    /\ ~currentVitals.isFingerDetected
    /\ currentVitals.heartRate = 45
    /\ currentVitals.spO2 = 85
    /\ trigLog = << >>

(***************************************************************************)
(* Claims about the alert engine with the enable flag off                  *)
(***************************************************************************)

\* C15: a pass of loop() taken while the enable flag is off appends nothing to
\* Active Alerts or Alert History, leaves lastAlertTime unchanged, triggers
\* nothing and sounds nothing (millis() advances by the pass's own delay only).
C15_DisabledNoChecks ==
    [][(~enabled /\ loops' # loops) =>
          /\ activeAlerts' = activeAlerts
          /\ alertHistory' = alertHistory
          /\ lastAlertTime' = lastAlertTime
          /\ passed' = passed
          /\ trigLog' = << >>
          /\ now' - now \in LoopSteps]_vars

\* C15 witness: checkAlerts has just run with the flag off, past the cooldown,
\* on a snapshot with SpO2 and battery in breach, and triggered nothing.
C15_Witness ==
    /\ ~enabled
    /\ alertLastOp = "loop"
    /\ lastAlertCheck = now
    /\ now - lastAlertTime >= ALERT_COOLDOWN
    /\ currentVitals.isFingerDetected
    /\ currentVitals.spO2 = 85
    /\ currentVitals.batteryLevel = 8
    /\ Len(activeAlerts) >= 1
    /\ trigLog = << >>

(***************************************************************************)
(* Claims about HeartRateCalculator::reset and the adaptive threshold      *)
(***************************************************************************)

\* C16 (as the specification states it): right after reset() the BPM ring is
\* empty (getBeatsPerMinute() is 0), the beat latch is open, and both
\* timestamps kept about the previous beat, lastBeat and lastBeatTime, are
\* cleared.
C16_BeatReset ==
    beatLastOp = "reset" =>
        /\ \A i \in 0 .. (RATE_ARRAY_SIZE - 1) : rateArray[i] = 0
        /\ rateSpot = 0
        /\ getBeatsPerMinute = 0
        /\ ~beatDetected
        /\ lastBeat = 0
        /\ lastBeatTime = 0

\* C20 (as the specification states it): every call of checkForBeat(sample),
\* whatever it returns, leaves threshold = (threshold * 31 + sample) / 32.
C20_ThresholdSmoothing ==
    [][beatCalls' # beatCalls => threshold' = CDiv(threshold * 31 + beatSample', 32)]_vars

(***************************************************************************)
(* Claims about AlertManager                                               *)
(***************************************************************************)

\* Every stored alert is acknowledged.
AllAcknowledged == \A k \in 1 .. Len(alerts) : alerts[k].acknowledged

\* C17: a tone played by handleBuzzer() is that of a stored alert that is not
\* acknowledged; when every stored alert is acknowledged hasActiveAlerts() is
\* false and handleBuzzer() plays nothing; acknowledgeAlert(i) with a valid i
\* marks alert i and nothing else, with any other i it changes nothing; and an
\* acknowledged alert stays acknowledged until addAlert or clearAllAlerts
\* changes the collection.
C17_AcknowledgeStopsBuzzer ==
    [][/\ (managerOps' # managerOps /\ managerLastOp' = "handleBuzzer") =>
             /\ tonePlayed' # ALERT_NONE =>
                   \E k \in 1 .. Len(alerts) :
                       ~alerts[k].acknowledged /\ alerts[k].type = tonePlayed'
             /\ AllAcknowledged =>
                   /\ ~hasActiveAlerts
                   /\ tonePlayed' = ALERT_NONE
                   /\ lastBuzzerTime' = lastBuzzerTime
       /\ (managerOps' # managerOps /\ managerLastOp' = "acknowledgeAlert") =>
             /\ Len(alerts') = Len(alerts)
             /\ \A k \in 1 .. Len(alerts) :
                   IF k = managerArg' + 1
                   THEN alerts'[k] = [alerts[k] EXCEPT !.acknowledged = TRUE]
                   ELSE alerts'[k] = alerts[k]
             /\ UNCHANGED <<lastBuzzerTime, buzzerEnabled, tonePlayed>>
       /\ (managerOps' # managerOps /\ managerLastOp' \notin {"addAlert", "clearAllAlerts"}) =>
             /\ Len(alerts') = Len(alerts)
             /\ \A k \in 1 .. Len(alerts) : alerts[k].acknowledged => alerts'[k].acknowledged
      ]_vars

\* C17 witness: handleBuzzer() has just played the tone of a high heart rate
\* alert while a low battery alert, of higher priority, is stored and
\* acknowledged.
C17_Witness ==
    /\ managerLastOp = "handleBuzzer"
    /\ tonePlayed = ALERT_HIGH_HEART_RATE
    /\ lastBuzzerTime = managerNow
    /\ \E k \in 1 .. Len(alerts) :
          alerts[k].acknowledged /\ alerts[k].type = ALERT_LOW_BATTERY

(***************************************************************************)
(* Claims about WiFi start-up                                              *)
(***************************************************************************)

\* C18 (as the usage instructions state it): on a boot where no WiFi
\* connection can be established, because no credentials are stored or
\* because the stored network cannot be joined, the device eventually enters
\* configuration mode with the hotspot "CardiacMonitor_Setup".
C18_FirstBootConfigMode ==
    (wifiSSID = "" \/ ~networkReachable) =>
        <>(configModeActive /\ hotspot = "CardiacMonitor_Setup")

(***************************************************************************)
(* Claims about finger presence                                            *)
(***************************************************************************)

\* The infrared values of the last recentSamples pushes.
LastPushedIr == [i \in 1..recentSamples |-> pushed[Len(pushed) - recentSamples + i][1]]

RECURSIVE SumHi(_, _)
SumHi(q, n) == IF n = 0 THEN 0 ELSE SumHi(q, n - 1) + q[n][1]

RECURSIVE SumLo(_, _)
SumLo(q, n) == IF n = 0 THEN 0 ELSE SumLo(q, n - 1) + q[n][2]

\* The mean of the last recentSamples pushes exceeds the floor, computed
\* without wrapping: their sum, as <<high, low>> with an unbounded high
\* part, is at least 50001 * recentSamples.
TrueMeanAboveFloor ==
    LET lo == SumLo(LastPushedIr, recentSamples)
        hi == SumHi(LastPushedIr, recentSamples) + (lo \div Half)
        least == W((FINGER_FLOOR + 1) * recentSamples)
    IN  hi > least[1] \/ (hi = least[1] /\ lo % Half >= least[2])

\* C19: isFingerPresent() and isValidReading() return true iff the buffer is
\* full and the mean of the most recently added infrared samples exceeds
\* 50000, for all unsigned 32-bit sample values and wherever the window lies
\* in the ring.
C19_FingerPresence ==
    /\ isFingerPresent <=> (bufferFull /\ TrueMeanAboveFloor)
    /\ isValidReading <=> (bufferFull /\ TrueMeanAboveFloor)

(***************************************************************************)
(* Claims about beat hysteresis                                            *)
(***************************************************************************)

C22_BeatRegistration ==
    (impoBeatCall.called /\ impoBeatCall.qualified) => impoBeatCall.returned

ExactDcSum(buffer) ==
    LET max == WMax({buffer[i] : i \in Slots})
        min == WMin({buffer[i] : i \in Slots})
        lo == max[2] + min[2]
    IN  <<max[1] + min[1] + (lo \div Half), lo % Half>>

\* C23: for all unsigned 32-bit samples in a full buffer, the DC of the
\* infrared channel is computed from the exact max + min (no wrap at 2^32),
\* and a channel whose samples are all non-zero does not yield DC == 0.
C23_NoDcOverflow ==
    bufferFull =>
        /\ dcSum(calcIrBuffer) = ExactDcSum(calcIrBuffer)
        /\ (\A i \in Slots : calcIrBuffer[i] # W(0)) => dcSum(calcIrBuffer) # W(0)

(***************************************************************************)
(* Claims about the array-based alert engine                               *)
(***************************************************************************)

\* C24: under any interleaving of triggerAlert, removeOldAlerts and
\* checkMemoryUsage, both counts stay within their capacities, no slot
\* outside the arrays is written, and entries leave the history oldest
\* first: the history holds the most recently stored alerts, in the order
\* they were stored.
C24_CollectionBounds ==
    /\ arrActiveCount \in 0 .. MAX_ALERTS
    /\ arrHistoryCount \in 0 .. MAX_HISTORY
    /\ ~arrWild
    /\ \A i \in 0 .. (arrHistoryCount - 1) :
           arrHistory[i].id = arrStored - arrHistoryCount + 1 + i

\* The history was full, lost its oldest entry to a new alert, and was then
\* trimmed by checkMemoryUsage, with the list of active alerts full.
C24_Witness ==
    /\ arrStored > MAX_HISTORY
    /\ arrHistoryCount < MAX_HISTORY
    /\ arrLastOp = "checkMemoryUsage"
    /\ arrActiveCount = MAX_ALERTS

(***************************************************************************)
(* Claims about AlertManager::addAlert                                     *)
(***************************************************************************)

\* The last addAlert found an alert of its type less than 30000 ms old
\* among the alerts stored before the call.
Duplicate ==
    \E k \in 1 .. Len(managerBefore) :
        /\ managerBefore[k].type = managerType
        /\ managerAt - managerBefore[k].timestamp < 30000

\* The alert an addAlert that is not suppressed stores.
NewAlert == [type |-> managerType, timestamp |-> managerAt, acknowledged |-> FALSE]

\* C25: an addAlert that is not suppressed as a duplicate while the store is
\* full removes the oldest alert, keeps the others in their order and stores
\* the new alert last; after any sequence of calls the count is within
\* 0 .. MAX_ALERTS and no slot outside the array has been accessed.
C25_ManagerEviction ==
    /\ Len(alerts) \in 0 .. MANAGER_MAX_ALERTS
    /\ ~managerWild
    /\ (managerLastOp = "addAlert" /\ ~Duplicate /\ Len(managerBefore) = MANAGER_MAX_ALERTS)
           => alerts = Append(Tail(managerBefore), NewAlert)

\* An addAlert on a full store that was not a duplicate.
C25_Witness ==
    /\ managerLastOp = "addAlert"
    /\ ~Duplicate
    /\ Len(managerBefore) = MANAGER_MAX_ALERTS
    /\ Len(alerts) = MANAGER_MAX_ALERTS

\* C26: addAlert leaves the stored alerts alone and plays no tone when an
\* alert of the same type less than 30000 ms old is stored, acknowledged or
\* not; otherwise it stores exactly one new unacknowledged alert of the type
\* stamped with the current time. Stored alerts of one type are therefore at
\* least 30000 ms apart.
C26_Deduplication ==
    /\ managerLastOp = "addAlert" =>
           IF Duplicate
           THEN alerts = managerBefore /\ ~managerToned /\ managerNow = managerAt
           ELSE /\ alerts[Len(alerts)] = NewAlert
                /\ LET others == SubSeq(alerts, 1, Len(alerts) - 1)
                   IN  \/ others = managerBefore
                       \/ managerBefore # << >> /\ others = Tail(managerBefore)
    /\ \A i, j \in 1 .. Len(alerts) :
           (i < j /\ alerts[i].type = alerts[j].type)
               => alerts[j].timestamp - alerts[i].timestamp >= 30000

\* An addAlert suppressed by an acknowledged alert of its type, with the
\* buzzer enabled.
C26_Witness ==
    /\ managerLastOp = "addAlert"
    /\ Duplicate
    /\ buzzerEnabled
    /\ \E k \in 1 .. Len(managerBefore) :
           managerBefore[k].type = managerType /\ managerBefore[k].acknowledged

(***************************************************************************)
(* Claims about the first alert after boot                                 *)
(***************************************************************************)

\* The snapshot v is in breach of a threshold that checkAlerts evaluates.
InBreach(v) ==
    \/ v.isFingerDetected /\ v.heartRate > 0
         /\ (v.heartRate < heartRateMin \/ v.heartRate > heartRateMax)
    \/ v.isFingerDetected /\ v.spO2 > 0 /\ v.spO2 < spO2Min
    \/ v.batteryLevel < batteryMin

\* C28: a breach present at the first evaluation cycle after boot, when no
\* alert has been triggered yet, triggers an alert at that cycle, however
\* soon after boot the cycle runs.
C28_NoCooldownBeforeFirstAlert ==
    (Len(fed) = 1 /\ ChecksRan /\ enabled /\ InBreach(fed[1][2])) => Len(alertHistory) >= 1

(***************************************************************************)
(* Claims about starvation among the alert checks                          *)
(***************************************************************************)

\* Every snapshot evaluated so far has a battery level below batteryMin and,
\* with a finger on the sensor, a heart rate or an SpO2 value in breach.
PersistentBreach ==
    \/ cycVitals = NoSnapshot
    \/ /\ cycVitals.batteryLevel < batteryMin
       /\ cycVitals.isFingerDetected
       /\ \/ cycVitals.heartRate > 0
             /\ (cycVitals.heartRate < heartRateMin \/ cycVitals.heartRate > heartRateMax)
          \/ cycVitals.spO2 > 0 /\ cycVitals.spO2 < spO2Min

\* C27: with alerts enabled, if the battery level stays below batteryMin
\* forever while a heart-rate or SpO2 breach with a finger persists, a
\* low-battery alert is eventually appended to Alert History.
C27_BatteryNotStarved == ([]PersistentBreach) => <>cycBatteryAlerted

(***************************************************************************)
(* Claims about the simplified Uno sketch                                  *)
(***************************************************************************)

\* Every snapshot read so far is in breach: battery below batteryMin, or a
\* heart rate or SpO2 value in breach with a finger on the sensor.
UnoBreachPersists == unoVitals = NoSnapshot \/ InBreach(unoVitals)

\* C29: in the Uno sketch, if a breach persists forever, some checkAlerts
\* reached from loop() eventually gets past its cooldown check and sets
\* alertActive with the corresponding message.
C29_UnoAlertLiveness ==
    ([]UnoBreachPersists) => <>(unoPastGate /\ unoAlertActive /\ unoMessage # "")

====
